---- MODULE Spec2Model ----
(***************************************************************************)
(* Model of the Argo-style primitives of crypto-poc-daily:                 *)
(*   2026-02-02/ec_mac.py          point arithmetic, ECMac, ArgoWire       *)
(*   2026-02-02/garbled_circuit.py BinaryLabel, BinaryWire,                *)
(*                                 BinaryGarbledGate                       *)
(*   2026-02-05/binary_circuit.py  the gate counter                        *)
(*                                                                         *)
(* ec_mac.py computes on Python's integers with the 256-bit parameters of  *)
(* secp256k1.  The model keeps the parameters and represents a Python int  *)
(* by its sign and its digits, so that every function below is the         *)
(* source's function, statement by statement, on the source's numbers.     *)
(***************************************************************************)
EXTENDS Integers, Sequences, FiniteSets, TLC

(***************************************************************************)
(* Python's int.  An integer is [neg |-> sign, mag |-> magnitude]; the     *)
(* magnitude is the sequence of its digits in base 2^13, least significant *)
(* first, without leading zeros: <<>> is 0, and 0 is never negative.  Two  *)
(* integers are equal iff their records are.  Sums of 32 products of two   *)
(* digits stay below 2^31.                                                 *)
(*                                                                         *)
(* Below, CHOOSE r \in {F(v) : v \in {value}} : TRUE is F(value), with     *)
(* value computed once, before F is applied to it: the arguments of an     *)
(* operator are bound this way, as a call binds them.  A loop of n steps   *)
(* is run as two halves, so that no evaluation nests deeper than log n.    *)
(***************************************************************************)
Base == 2 ^ 13

Min(m, n) == IF m <= n THEN m ELSE n

Max(m, n) == IF m >= n THEN m ELSE n

\* The least l with 2^l >= n, for 1 <= n <= 2^30.
ceil_log2(n) == CHOOSE l \in 0 .. 30 : 2 ^ l >= n /\ (l = 0 \/ 2 ^ (l - 1) < n)

\* The digits of a natural number that fits a machine word.
RECURSIVE nat(_)
nat(n) == IF n = 0 THEN <<>> ELSE <<n % Base>> \o nat(n \div Base)

limb(a, i) == IF i <= Len(a) THEN a[i] ELSE 0

\* The digits without their leading zeros.
trim(digits) ==
    CHOOSE r \in
        {IF a = <<>> \/ a[Len(a)] # 0
         THEN a
         ELSE IF Len(a) >= 2 /\ a[Len(a) - 1] # 0
         THEN SubSeq(a, 1, Len(a) - 1)
         ELSE LET nz == {i \in 1 .. Len(a) : a[i] # 0}
              IN  IF nz = {}
                  THEN <<>>
                  ELSE SubSeq(a, 1, CHOOSE i \in nz : \A j \in nz : j <= i) :
         a \in {digits}} : TRUE

\* Carry propagation over the columns from .. to (at most four of them):
\* st is <<digits so far, carry>>; a column may be negative (a borrow).
carry_leaf(st, cols, from, to) ==
    LET t1 == cols[from] + st[2]
        t2 == cols[from + 1] + (t1 \div Base)
        t3 == cols[from + 2] + (t2 \div Base)
        t4 == cols[from + 3] + (t3 \div Base)
    IN  IF to = from
        THEN <<Append(st[1], t1 % Base), t1 \div Base>>
        ELSE IF to = from + 1
        THEN <<st[1] \o <<t1 % Base, t2 % Base>>, t2 \div Base>>
        ELSE IF to = from + 2
        THEN <<st[1] \o <<t1 % Base, t2 % Base, t3 % Base>>, t3 \div Base>>
        ELSE <<st[1] \o <<t1 % Base, t2 % Base, t3 % Base, t4 % Base>>,
               t4 \div Base>>

RECURSIVE carry_pass(_, _, _, _)
carry_pass(st, cols, from, to) ==
    IF from > to THEN st
    ELSE IF to - from < 4
    THEN carry_leaf(st, cols, from, to)
    ELSE LET mid == (from + to) \div 2
         IN  CHOOSE r \in {carry_pass(l, cols, mid + 1, to) :
                           l \in {carry_pass(st, cols, from, mid)}} : TRUE

\* <<digits, final carry>> of a sequence of column sums.
carried(columns) ==
    CHOOSE r \in {carry_pass(<<<<>>, 0>>, cols, 1, Len(cols)) :
                  cols \in {columns}} : TRUE

\* The digits and the carry as one number.
with_carry(r) == IF r[2] = 0 THEN r[1] ELSE Append(r[1], r[2])

nat_add(a, b) ==
    CHOOSE s \in
        {with_carry(r) :
         r \in {carried([i \in 1 .. Max(Len(a), Len(b)) |->
                            limb(a, i) + limb(b, i)])}} : TRUE

\* a - b as <<digits, borrow>>: the borrow is negative iff a < b.
nat_diff(a, b) ==
    carried([i \in 1 .. Max(Len(a), Len(b)) |-> limb(a, i) - limb(b, i)])

nat_lt(a, b) ==
    IF Len(a) # Len(b) THEN Len(a) < Len(b) ELSE nat_diff(a, b)[2] < 0

\* a - b for a >= b.
nat_sub(a, b) == trim(nat_diff(a, b)[1])

\* Column k of the product a * b: the sum of a[i] * b[k - i + 1] over
\* lo <= i <= hi.
RECURSIVE colsum(_, _, _, _, _)
colsum(a, b, k, lo, hi) ==
    IF lo = hi
    THEN a[lo] * b[k - lo + 1]
    ELSE IF hi = lo + 1
    THEN a[lo] * b[k - lo + 1] + a[hi] * b[k - hi + 1]
    ELSE IF hi = lo + 2
    THEN a[lo] * b[k - lo + 1] + a[lo + 1] * b[k - lo] + a[hi] * b[k - hi + 1]
    ELSE IF hi = lo + 3
    THEN a[lo] * b[k - lo + 1] + a[lo + 1] * b[k - lo]
         + a[lo + 2] * b[k - lo - 1] + a[hi] * b[k - hi + 1]
    ELSE LET mid == (lo + hi) \div 2
         IN  colsum(a, b, k, lo, mid) + colsum(a, b, k, mid + 1, hi)

nat_mul(a, b) ==
    IF a = <<>> \/ b = <<>>
    THEN <<>>
    ELSE CHOOSE s \in
             {with_carry(r) :
              r \in {carried([k \in 1 .. Len(a) + Len(b) - 1 |->
                                 colsum(a, b, k, Max(1, k - Len(b) + 1),
                                        Min(k, Len(a)))])}} : TRUE

\* Long division (Knuth, algorithm D).  The estimate qh of a quotient digit
\* is corrected against the second digit of the divisor.
RECURSIVE qhat_fix(_, _, _, _, _)
qhat_fix(qh, rh, v1, v2, u3) ==
    IF rh < Base /\ (qh >= Base \/ qh * v2 > Base * rh + u3)
    THEN qhat_fix(qh - 1, rh + v1, v1, v2, u3)
    ELSE qh

\* The estimate of the next quotient digit for the remainder r1 (of more
\* than Len(v) - 1 digits) and the divisor v.
qhat(r1, v) ==
    LET n   == Len(v)
        top == limb(r1, n + 1) * Base + r1[n]
    IN  IF n = 1
        THEN top \div v[1]
        ELSE qhat_fix(top \div v[n], top % v[n], v[n], v[n - 1], r1[n - 1])

\* r1 - qh * v when that is not negative, and r1 - (qh - 1) * v otherwise,
\* with the digit of the quotient put before the digits q.
div_subtract(q, r1, v, qh) ==
    CHOOSE s \in
        {IF p[2] < 0
         THEN <<<<qh - 1>> \o q,
                trim(carried([i \in 1 .. Len(v) + 1 |->
                                 p[1][i] + limb(v, i)])[1])>>
         ELSE <<<<qh>> \o q, trim(p[1])>> :
         p \in {carried([i \in 1 .. Len(v) + 1 |->
                            limb(r1, i) - qh * limb(v, i)])}} : TRUE

\* One digit of the quotient: st is <<quotient digits, remainder>>, x the
\* next digit of the dividend, v the divisor.
div_step(st, x, v) ==
    CHOOSE s \in
        {IF Len(r1) < Len(v)
         THEN <<<<0>> \o st[1], r1>>
         ELSE CHOOSE t \in {div_subtract(st[1], r1, v, qh) :
                            qh \in {qhat(r1, v)}} : TRUE :
         r1 \in {IF st[2] = <<>> /\ x = 0 THEN <<>> ELSE <<x>> \o st[2]}} :
        TRUE

RECURSIVE div_loop(_, _, _, _, _)
div_loop(st, u, v, hi, lo) ==
    IF hi < lo THEN st
    ELSE IF hi = lo
    THEN div_step(st, u[hi], v)
    ELSE LET mid == (hi + lo) \div 2
         IN  CHOOSE r \in {div_loop(l, u, v, mid, lo) :
                           l \in {div_loop(st, u, v, hi, mid + 1)}} : TRUE

nat_divmod_plain(u0, v0) ==
    CHOOSE r \in
        {<<trim(st[1]), st[2]>> :
         st \in {CHOOSE s \in {div_loop(<<<<>>, <<>>>>, u, v, Len(u), 1) :
                               u \in {u0}, v \in {v0}} : TRUE}} : TRUE

\* u * d for one digit d.
nat_scale(u, d) ==
    CHOOSE s \in
        {with_carry(r) :
         r \in {carried([i \in 1 .. Len(u) |-> d * u[i]])}} : TRUE

RECURSIVE short_div(_, _, _, _, _)
short_div(st, u, d, hi, lo) ==
    IF hi < lo THEN st
    ELSE IF hi = lo
    THEN <<<<(st[2] * Base + u[hi]) \div d>> \o st[1],
           (st[2] * Base + u[hi]) % d>>
    ELSE LET mid == (hi + lo) \div 2
         IN  CHOOSE r \in {short_div(l, u, d, mid, lo) :
                           l \in {short_div(st, u, d, hi, mid + 1)}} : TRUE

\* u \div d for one digit d.
nat_unscale(u0, d) ==
    CHOOSE r \in {trim(short_div(<<<<>>, 0>>, u, d, Len(u), 1)[1]) :
                  u \in {u0}} : TRUE

\* u - q * v was computed with an estimate q that may be too large: v is
\* added back until the borrow is gone.
RECURSIVE add_back(_, _, _)
add_back(p, q, v) ==
    IF p[2] >= 0
    THEN <<nat(q), trim(p[1])>>
    ELSE CHOOSE r \in
             {add_back(<<p2[1], p[2] + p2[2]>>, q - 1, v) :
              p2 \in {carried([i \in 1 .. Len(p[1]) |->
                                  p[1][i] + limb(v, i)])}} : TRUE

\* The quotient of two numbers of the same length is below Base: it is
\* estimated from their two leading digits.
nat_divmod_same_length(u, v) ==
    LET n  == Len(v)
        qh == (u[n] * Base + u[n - 1]) \div (v[n] * Base + v[n - 1])
    IN  IF n = 1
        THEN <<nat(u[1] \div v[1]), nat(u[1] % v[1])>>
        ELSE IF qh = 0
        THEN <<<<>>, u>>
        ELSE CHOOSE r \in
                 {add_back(p, qh, v) :
                  p \in {carried([i \in 1 .. n |-> u[i] - qh * v[i]])}} :
                 TRUE

\* The divisor and the dividend scaled by d, divided, and the remainder
\* scaled back.
nat_divmod_scaled(u, v, d) ==
    CHOOSE r \in
        {<<st[1], nat_unscale(st[2], d)>> :
         st \in {nat_divmod_plain(nat_scale(u, d), nat_scale(v, d))}} : TRUE

\* <<u \div v, u % v>> for v # 0; the divisor is scaled so that its leading
\* digit is at least Base / 2.
nat_divmod(u, v) ==
    IF Len(u) < Len(v)
    THEN <<<<>>, u>>
    ELSE IF Len(u) = Len(v)
    THEN nat_divmod_same_length(u, v)
    ELSE IF Len(v) = 1 \/ Base \div (v[Len(v)] + 1) = 1
    THEN nat_divmod_plain(u, v)
    ELSE nat_divmod_scaled(u, v, Base \div (v[Len(v)] + 1))

\* An int of the given sign and magnitude.
mk(neg, digits) ==
    CHOOSE r \in {[neg |-> neg /\ mag # <<>>, mag |-> mag] :
                  mag \in {digits}} : TRUE

\* The int of an integer that fits a machine word.
int(n) == IF n < 0 THEN mk(TRUE, nat(0 - n)) ELSE mk(FALSE, nat(n))

Zero == int(0)

One == int(1)

\* -a.
int_neg(a0) == CHOOSE r \in {mk(~a.neg, a.mag) : a \in {a0}} : TRUE

\* a + b.
py_add(a0, b0) ==
    CHOOSE r \in
        {IF a.neg = b.neg
         THEN mk(a.neg, nat_add(a.mag, b.mag))
         ELSE IF nat_lt(a.mag, b.mag)
         THEN mk(b.neg, nat_sub(b.mag, a.mag))
         ELSE mk(a.neg, nat_sub(a.mag, b.mag)) :
         a \in {a0}, b \in {b0}} : TRUE

\* a * b.
py_mul(a0, b0) ==
    CHOOSE r \in {mk(a.neg # b.neg, nat_mul(a.mag, b.mag)) :
                  a \in {a0}, b \in {b0}} : TRUE

\* divmod(a, m) for m # 0: <<a // m, a % m>>, the floor of the quotient
\* and the remainder, which is zero or has the sign of m.
py_divmod(a0, m0) ==
    CHOOSE r \in
        {CHOOSE s \in
             {IF a.neg = m.neg
              THEN <<mk(FALSE, qr[1]), mk(m.neg, qr[2])>>
              ELSE IF qr[2] = <<>>
              THEN <<mk(TRUE, qr[1]), Zero>>
              ELSE <<mk(TRUE, nat_add(qr[1], <<1>>)),
                     mk(m.neg, nat_sub(m.mag, qr[2]))>> :
              qr \in {nat_divmod(a.mag, m.mag)}} : TRUE :
         a \in {a0}, m \in {m0}} : TRUE

(***************************************************************************)
(* Calls.  Call(f, args) is the call of the function or operator named f   *)
(* on the arguments args: the definition of f, below, applied to them.     *)
(* Where a definition calls another, it does so by name, as the source     *)
(* does.                                                                   *)
(***************************************************************************)
RECURSIVE Call(_, _)

\* a + b, a - b, a * b, a < b, divmod(a, m), a % m, a // m.
int_add(a, b) == Call("+", <<a, b>>)

int_sub(a, b) == Call("+", <<a, int_neg(b)>>)

int_mul(a, b) == Call("*", <<a, b>>)

int_lt(a, b) == Call("+", <<a, int_neg(b)>>).neg

int_divmod(a, m) == Call("divmod", <<a, m>>)

int_mod(a, m) == Call("divmod", <<a, m>>)[2]

int_floordiv(a, m) == Call("divmod", <<a, m>>)[1]

\* k & 1 and k >> 1 for k >= 0.
int_odd(k0) ==
    \E k \in {k0} : k.mag # <<>> /\ k.mag[1] % 2 = 1

int_shr1(k0) ==
    CHOOSE r \in
        {mk(k.neg,
            trim(SubSeq([i \in 1 .. Len(k.mag) |->
                            (k.mag[i] \div 2)
                                + (limb(k.mag, i + 1) % 2) * (Base \div 2)],
                        1, Len(k.mag)))) :
         k \in {k0}} : TRUE

\* Bit i (bit 0 is the lowest) of k >= 0.
int_bit(k, i) == (limb(k.mag, i \div 13 + 1) \div 2 ^ (i % 13)) % 2

\* k.bit_length() for k >= 0.
bit_length(k0) ==
    CHOOSE n \in
        {IF k.mag = <<>>
         THEN 0
         ELSE 13 * (Len(k.mag) - 1)
              + (CHOOSE b \in 1 .. 13 : k.mag[Len(k.mag)] < 2 ^ b
                                         /\ k.mag[Len(k.mag)] >= 2 ^ (b - 1)) :
         k \in {k0}} : TRUE

\* The int written with the given digits of `width` bits each, the most
\* significant first: a hexadecimal literal in words of 16 bits, or
\* int.from_bytes(data, 'big') on bytes.
RECURSIVE bits_value(_, _, _, _)
bits_value(digits, width, lo, n) ==
    IF n = 0
    THEN 0
    ELSE (IF Len(digits) - (lo \div width) < 1
          THEN 0
          ELSE (digits[Len(digits) - (lo \div width)]
                    \div 2 ^ (lo % width)) % 2)
         + 2 * bits_value(digits, width, lo + 1, n - 1)

from_digits(digits0, width) ==
    CHOOSE r \in
        {mk(FALSE,
            trim(SubSeq([j \in 1 .. (Len(digits) * width + 12) \div 13 |->
                            bits_value(digits, width, 13 * (j - 1), 13)],
                        1, (Len(digits) * width + 12) \div 13))) :
         digits \in {digits0}} : TRUE

int_from_bytes(data) == from_digits(data, 8)

(***************************************************************************)
(* Curve parameters (ec_mac.py lines 20-23): secp256k1, each literal       *)
(* written in words of four hexadecimal digits.                            *)
(***************************************************************************)
\* 2**256 - 2**32 - 977
P ==
    from_digits(<<\hFFFF, \hFFFF, \hFFFF, \hFFFF, \hFFFF, \hFFFF, \hFFFF,
                  \hFFFF, \hFFFF, \hFFFF, \hFFFF, \hFFFF, \hFFFF, \hFFFE,
                  \hFFFF, \hFC2F>>, 16)

\* 0xFFFFFFFFFFFFFFFFFFFFFFFFFFFFFFFEBAAEDCE6AF48A03BBFD25E8CD0364141
N ==
    from_digits(<<\hFFFF, \hFFFF, \hFFFF, \hFFFF, \hFFFF, \hFFFF, \hFFFF,
                  \hFFFE, \hBAAE, \hDCE6, \hAF48, \hA03B, \hBFD2, \h5E8C,
                  \hD036, \h4141>>, 16)

\* 0x79BE667EF9DCBBAC55A06295CE870B07029BFCDB2DCE28D959F2815B16F81798
G_X ==
    from_digits(<<\h79BE, \h667E, \hF9DC, \hBBAC, \h55A0, \h6295, \hCE87,
                  \h0B07, \h029B, \hFCDB, \h2DCE, \h28D9, \h59F2, \h815B,
                  \h16F8, \h1798>>, 16)

\* 0x483ADA7726A3C4655DA4FBFC0E1108A8FD17B448A68554199C47D08FFB10D4B8
G_Y ==
    from_digits(<<\h483A, \hDA77, \h26A3, \hC465, \h5DA4, \hFBFC, \h0E11,
                  \h08A8, \hFD17, \hB448, \hA685, \h5419, \h9C47, \hD08F,
                  \hFB10, \hD4B8>>, 16)

(***************************************************************************)
(* class Point (ec_mac.py lines 26-49): a dataclass of x, y, is_infinity.  *)
(***************************************************************************)
Point(px, py) == [x |-> px, y |-> py, is_infinity |-> FALSE]

infinity == [x |-> Zero, y |-> Zero, is_infinity |-> TRUE]

generator == Point(G_X, G_Y)

\* Point.__eq__: two infinities are equal; otherwise the coordinates decide
\* (the flag itself is not compared).
Point_eq(q1, q2) ==
    \E p1 \in {q1}, p2 \in {q2} :
        IF p1.is_infinity /\ p2.is_infinity
        THEN TRUE
        ELSE p1.x = p2.x /\ p1.y = p2.y

(***************************************************************************)
(* A raised exception, propagated by every caller (none catches one):      *)
(* ValueError of mod_inverse, ZeroDivisionError of % by zero, and          *)
(* RecursionError of a call nested deeper than the interpreter allows.     *)
(***************************************************************************)
ValueError == [error |-> "ValueError"]

ZeroDivisionError == [error |-> "ZeroDivisionError"]

RecursionError == [error |-> "RecursionError"]

Raised(r) == "error" \in DOMAIN r

\* The interpreter's recursion limit, sys.getrecursionlimit(), which the
\* program never changes: the module runs in frame 1 and no call runs in a
\* frame beyond this number.
RecursionLimit == 1000

\* The frames in use when a script calls a function of ec_mac.py from its
\* top level: the module's own.  A caller deeper in the stack leaves fewer
\* frames to the recursion of extended_gcd.
CallerFrames == 1

(***************************************************************************)
(* extended_gcd (ec_mac.py lines 62-68): the results a call can give, each *)
(* [value |-> <<gcd, x, y>>] or RecursionError.  The function calls itself *)
(* on (b % a, a) until a is 0 (some hundred calls on 256-bit arguments),   *)
(* each call in a new frame, and each call computes its result from the    *)
(* result of the call it made.  The calls are made first, keeping b // a   *)
(* of each; the returns follow, from the innermost call outwards.          *)
(*                                                                         *)
(* A call can run in the frames 1 .. RecursionLimit.  In the frame         *)
(* RecursionLimit no further call can be made, and the comparison a == 0   *)
(* of line 63 itself raises RecursionError unless the interpreter has      *)
(* specialised it for small integers, which depends on the calls the       *)
(* process made before: there both results are possible.                   *)
(***************************************************************************)
\* One call, running in st.frame: the arguments and the frame of the call
\* it makes, and the quotient kept.
extended_gcd_call(st) ==
    CHOOSE r \in
        {[a |-> qr[2], b |-> st.a, quotients |-> Append(st.quotients, qr[1]),
          frame |-> st.frame + 1] :
         qr \in {int_divmod(st.b, st.a)}} : TRUE

\* Up to 2^n calls, ending at the call with a = 0 or at the call that runs
\* in the last frame.
RECURSIVE extended_gcd_calls(_, _)
extended_gcd_calls(st, n) ==
    IF st.frame >= RecursionLimit \/ st.a = Zero THEN st
    ELSE IF n = 0 THEN extended_gcd_call(st)
    ELSE CHOOSE r \in {extended_gcd_calls(l, n - 1) :
                       l \in {extended_gcd_calls(st, n - 1)}} : TRUE

\* The returns of the calls hi, hi - 1, .., lo: r is <<x1, y1>> of the call
\* made, and the call returns x = y1 - (b // a) * x1, y = x1.
RECURSIVE extended_gcd_returns(_, _, _, _)
extended_gcd_returns(r, quotients, hi, lo) ==
    IF hi < lo THEN r
    ELSE IF hi = lo
    THEN <<int_sub(r[2], int_mul(quotients[hi], r[1])), r[1]>>
    ELSE LET mid == (hi + lo) \div 2
         IN  CHOOSE s \in {extended_gcd_returns(l, quotients, mid, lo) :
                           l \in {extended_gcd_returns(r, quotients, hi,
                                                       mid + 1)}} : TRUE

\* The results of extended_gcd(a, b) called in the given frame.  Euclid's
\* algorithm takes fewer than 2 * 13 * Len(b.mag) + 4 calls.  The chain
\* ends at the call last: with a = 0 in a frame below RecursionLimit the
\* value is returned; with a = 0 in the frame RecursionLimit the comparison
\* raises or the value is returned; otherwise a call had no frame.
extended_gcd_in_frame(a0, b0, frame0) ==
    CHOOSE g \in
        {IF last.frame > RecursionLimit \/ last.a # Zero
         THEN {RecursionError}
         ELSE (IF last.frame = RecursionLimit THEN {RecursionError} ELSE {})
              \cup {[value |-> <<last.b, r[1], r[2]>>] :
                     r \in {extended_gcd_returns(<<Zero, One>>,
                                                 last.quotients,
                                                 Len(last.quotients), 1)}} :
         last \in {CHOOSE l \in
                       {extended_gcd_calls(
                            [a |-> a, b |-> b, quotients |-> <<>>,
                             frame |-> frame],
                            ceil_log2(26 * Len(b.mag) + 4)) :
                        a \in {a0}, b \in {b0}, frame \in {frame0}} : TRUE}} :
        TRUE

\* extended_gcd(a, b) called from the top level of a script.
extended_gcd(a, b) ==
    Call("extended_gcd_in_frame", <<a, b, CallerFrames + 1>>)

\* The result of a call that can give one result only.
Only(results) == CHOOSE r \in results : results = {r}

(***************************************************************************)
(* mod_inverse (ec_mac.py lines 52-59): the results a call from the top    *)
(* level of a script can give, each the inverse as [value |-> x] or the    *)
(* exception raised.  a % m of line 55 and x % m of line 59 raise          *)
(* ZeroDivisionError for m = 0; extended_gcd runs one frame below, and     *)
(* every result of it is a result of mod_inverse or the cause of its       *)
(* exception.  There is one result unless the recursion ends in the last   *)
(* frame.                                                                  *)
(***************************************************************************)
\* mod_inverse rejecting a negative a.
mod_inverse_raise_on_negative(a0, m0) ==
    CHOOSE v \in
        {IF a.neg
         THEN {ValueError}
         ELSE {IF Raised(r) THEN r
               ELSE IF r.value[1] # One THEN ValueError
               ELSE IF m = Zero THEN ZeroDivisionError
               ELSE [value |-> int_mod(r.value[2], m)] :
               r \in Call("extended_gcd_in_frame",
                          <<a, m, CallerFrames + 2>>)} :
         a \in {a0}, m \in {m0}} : TRUE

mod_inverse(a0, m0) ==
    CHOOSE v \in
        {IF a.neg /\ m = Zero
         THEN {ZeroDivisionError}
         ELSE {IF Raised(r) THEN r
               ELSE IF r.value[1] # One THEN ValueError
               ELSE IF m = Zero THEN ZeroDivisionError
               ELSE [value |-> int_mod(r.value[2], m)] :
               r \in Call("extended_gcd_in_frame",
                          <<IF a.neg THEN int_mod(a, m) ELSE a, m,
                            CallerFrames + 2>>)} :
         a \in {a0}, m \in {m0}} : TRUE

(***************************************************************************)
(* garbled_circuit.py.  A bytes object is a sequence of integers 0..255.   *)
(***************************************************************************)
LabelBytes == 16
DigestBytes == 32

\* k ^ o on two bytes (non-negative integers).
RECURSIVE bitxor(_, _)
bitxor(m, n) ==
    IF m = 0 THEN n
    ELSE IF n = 0 THEN m
    ELSE ((m + n) % 2) + 2 * bitxor(m \div 2, n \div 2)

\* The same on all pairs of bytes, computed once.
ByteXor == [m \in 0 .. 255 |-> [n \in 0 .. 255 |-> bitxor(m, n)]]

\* bytes(k ^ o for k, o in zip(key, data)): zip stops at the shorter one.
\*                                    (garbled_circuit.py lines 102, 116)
xor_bytes(key, data) ==
    [i \in 1 .. Min(Len(key), Len(data)) |-> ByteXor[key[i]][data[i]]]

(***************************************************************************)
(* hashlib.sha256(data).digest(): SHA-256 (FIPS 180-4).  A 32-bit word is  *)
(* a pair <<high, low>> of 16-bit halves, so that no intermediate value    *)
(* leaves the integers TLC computes on.                                    *)
(***************************************************************************)
\* m & n on two bytes: m + n = (m ^ n) + 2 * (m & n).
ByteAnd ==
    [m \in 0 .. 255 |-> [n \in 0 .. 255 |-> (m + n - ByteXor[m][n]) \div 2]]

\* Below, CHOOSE r \in {F(v) : v \in {value}} : TRUE is F(value), with value
\* computed once, before F is applied to it.

word_xor(x, y) ==
    <<ByteXor[x[1] \div 256][y[1] \div 256] * 256
          + ByteXor[x[1] % 256][y[1] % 256],
      ByteXor[x[2] \div 256][y[2] \div 256] * 256
          + ByteXor[x[2] % 256][y[2] % 256]>>

word_and(x, y) ==
    <<ByteAnd[x[1] \div 256][y[1] \div 256] * 256
          + ByteAnd[x[1] % 256][y[1] % 256],
      ByteAnd[x[2] \div 256][y[2] \div 256] * 256
          + ByteAnd[x[2] % 256][y[2] % 256]>>

word_not(x) == <<65535 - x[1], 65535 - x[2]>>

\* Addition modulo 2^32.
word_add(x, y) ==
    <<(x[1] + y[1] + (x[2] + y[2]) \div 65536) % 65536,
      (x[2] + y[2]) % 65536>>

\* x >> n, for 0 <= n < 16.
word_shr(x, n) ==
    <<x[1] \div 2 ^ n,
      x[2] \div 2 ^ n + (x[1] % 2 ^ n) * 2 ^ (16 - n)>>

\* x rotated right by n bits, for 0 <= n < 32.
word_rotr(x, n) ==
    IF n >= 16
    THEN <<x[2] \div 2 ^ (n - 16) + (x[1] % 2 ^ (n - 16)) * 2 ^ (32 - n),
           x[1] \div 2 ^ (n - 16) + (x[2] % 2 ^ (n - 16)) * 2 ^ (32 - n)>>
    ELSE <<x[1] \div 2 ^ n + (x[2] % 2 ^ n) * 2 ^ (16 - n),
           x[2] \div 2 ^ n + (x[1] % 2 ^ n) * 2 ^ (16 - n)>>

sha256_K ==
  <<<<17034, 12184>>, <<28983, 17553>>, <<46528, 64463>>, <<59829, 56229>>,
  <<14678, 49755>>, <<23025, 4593>>, <<37439, 33444>>, <<43804, 24277>>,
  <<55303, 43672>>, <<4739, 23297>>, <<9265, 34238>>, <<21772, 32195>>,
  <<29374, 23924>>, <<32990, 45566>>, <<39900, 1703>>, <<49563, 61812>>,
  <<58523, 27073>>, <<61374, 18310>>, <<4033, 40390>>, <<9228, 41420>>,
  <<11753, 11375>>, <<19060, 33962>>, <<23728, 43484>>, <<30457, 35034>>,
  <<38974, 20818>>, <<43057, 50797>>, <<45059, 10184>>, <<48985, 32711>>,
  <<50912, 3059>>, <<54695, 37191>>, <<1738, 25425>>, <<5161, 10599>>,
  <<10167, 2693>>, <<11803, 8504>>, <<19756, 28156>>, <<21304, 3347>>,
  <<25866, 29524>>, <<30314, 2747>>, <<33218, 51502>>, <<37490, 11397>>,
  <<41663, 59553>>, <<43034, 26187>>, <<49739, 35696>>, <<51052, 20899>>,
  <<53650, 59417>>, <<54937, 1572>>, <<62478, 13701>>, <<4202, 41072>>,
  <<6564, 49430>>, <<7735, 27656>>, <<10056, 30540>>, <<13488, 48309>>,
  <<14620, 3251>>, <<20184, 43594>>, <<23452, 51791>>, <<26670, 28659>>,
  <<29839, 33518>>, <<30885, 25455>>, <<33992, 30740>>, <<36039, 520>>,
  <<37054, 65530>>, <<42064, 27883>>, <<48889, 41975>>, <<50801, 30962>>>>

sha256_H0 ==
  <<<<27145, 58983>>, <<47975, 44677>>, <<15470, 62322>>, <<42319, 62778>>,
  <<20750, 21119>>, <<39685, 26764>>, <<8067, 55723>>, <<23520, 52505>>>>

\* The message schedule: W, holding the first words, extended to n words.
RECURSIVE sha256_schedule(_, _)
sha256_schedule(W, n) ==
    IF Len(W) >= n
    THEN W
    ELSE IF Len(W) + 1 = n
    THEN LET x  == W[n - 15]
             y  == W[n - 2]
             s0 == word_xor(word_xor(word_rotr(x, 7), word_rotr(x, 18)),
                            word_shr(x, 3))
             s1 == word_xor(word_xor(word_rotr(y, 17), word_rotr(y, 19)),
                            word_shr(y, 10))
         IN  Append(W, word_add(word_add(W[n - 16], s0),
                                word_add(W[n - 7], s1)))
    ELSE CHOOSE r \in {sha256_schedule(first, n) :
                        first \in {sha256_schedule(W, (Len(W) + n) \div 2)}} :
             TRUE

\* One round on the working variables s = <<a, b, c, d, e, f, g, h>> with
\* kw = K[t] + W[t].
sha256_round(s, kw) ==
    LET a == s[1]
        b == s[2]
        c == s[3]
        e == s[5]
        f == s[6]
        g == s[7]
        S1  == word_xor(word_xor(word_rotr(e, 6), word_rotr(e, 11)),
                        word_rotr(e, 25))
        ch  == word_xor(word_and(e, f), word_and(word_not(e), g))
        S0  == word_xor(word_xor(word_rotr(a, 2), word_rotr(a, 13)),
                        word_rotr(a, 22))
        maj == word_xor(word_xor(word_and(a, b), word_and(a, c)),
                        word_and(b, c))
    IN  CHOOSE r \in
            {<<word_add(T[1], T[2]), a, b, c, word_add(s[4], T[1]), e, f, g>> :
                 T \in {<<word_add(word_add(s[8], S1), word_add(ch, kw)),
                          word_add(S0, maj)>>}} :
            TRUE

\* Rounds from .. to, in order.
RECURSIVE sha256_rounds(_, _, _, _)
sha256_rounds(s, W, from, to) ==
    IF from = to
    THEN sha256_round(s, word_add(sha256_K[from], W[from]))
    ELSE CHOOSE r \in
             {sha256_rounds(first, W, (from + to) \div 2 + 1, to) :
                  first \in {sha256_rounds(s, W, from, (from + to) \div 2)}} :
             TRUE

\* The compression function: the hash value after one more 64-byte block.
sha256_compress(h, block) ==
    CHOOSE r \in
        {[j \in 1 .. 8 |-> word_add(h[j], s[j])] :
             s \in {sha256_rounds(h, W, 1, 64) :
                        W \in {sha256_schedule(
                                   [t \in 1 .. 16 |->
                                       <<block[4 * t - 3] * 256
                                             + block[4 * t - 2],
                                         block[4 * t - 1] * 256
                                             + block[4 * t]>>], 64)}}} :
        TRUE

\* The padded message: a 1 bit, zeros up to 56 modulo 64 bytes, and the
\* length in bits as 8 big-endian bytes (its high 4 bytes are 0 for every
\* message shorter than 2^28 bytes).
sha256_pad(data) ==
    LET bits == 8 * Len(data)
    IN  data \o <<128>> \o [i \in 1 .. (55 - Len(data)) % 64 |-> 0]
             \o <<0, 0, 0, 0, bits \div 16777216, (bits \div 65536) % 256,
                  (bits \div 256) % 256, bits % 256>>

\* The 64-byte blocks from .. to of the padded message, absorbed in order.
RECURSIVE sha256_state(_, _, _, _)
sha256_state(h, padded, from, to) ==
    IF from = to
    THEN sha256_compress(h, SubSeq(padded, 64 * from - 63, 64 * from))
    ELSE CHOOSE r \in
             {sha256_state(first, padded, (from + to) \div 2 + 1, to) :
                  first \in {sha256_state(h, padded, from,
                                          (from + to) \div 2)}} :
             TRUE

\* The hash value serialised as 32 big-endian bytes.
sha256_output(h) ==
    [i \in 1 .. DigestBytes |->
        LET half == h[(i + 3) \div 4][((i - 1) % 4) \div 2 + 1]
        IN  IF i % 2 = 1 THEN half \div 256 ELSE half % 256]

sha256_digest(data) ==
    CHOOSE r \in
        {sha256_output(sha256_state(sha256_H0, padded, 1,
                                    Len(padded) \div 64)) :
             padded \in {sha256_pad(data)}} :
        TRUE

(***************************************************************************)
(* class BinaryLabel (garbled_circuit.py lines 23-41).                     *)
(***************************************************************************)
BinaryLabel(bytes) == [label |-> bytes]

\* BinaryLabel.random(): secrets.token_bytes(16).  The labels drawn are
\* NumLabels fixed strings of 16 bytes; one string may be drawn twice.
NumLabels == 2
token_bytes(i) == [j \in 1 .. LabelBytes |-> (i * 89 + j * (2 * i + 1) * 13) % 256]
RandomLabels == {BinaryLabel(token_bytes(i)) : i \in 1 .. NumLabels}

\* Labels no wire holds: one of 16 bytes and one of another length.
ForeignLabels == {BinaryLabel(token_bytes(0)), BinaryLabel(<<1, 2, 3>>)}

AnyLabels == RandomLabels \cup ForeignLabels

\* The digests of the concatenations of two of these labels, computed once.
KnownDigests ==
    [data \in {la.label \o lb.label : la \in AnyLabels, lb \in AnyLabels} |->
        sha256_digest(data)]

\* hashlib.sha256(data).digest().
sha256(data) ==
    IF data \in DOMAIN KnownDigests
    THEN KnownDigests[data]
    ELSE sha256_digest(data)

\* self.hash_with(*others): the digest of the concatenated labels, cut to
\* its first 16 bytes.
RECURSIVE concat_labels(_)
concat_labels(labels) ==
    IF labels = <<>>
    THEN <<>>
    ELSE labels[1].label \o concat_labels(Tail(labels))

\* hash_with keeping only the first 8 bytes of the digest.
hash_with_8(self, others) ==
    SubSeq(sha256(self.label \o concat_labels(others)), 1, 8)

hash_with(self, others) ==
    SubSeq(sha256(self.label \o concat_labels(others)), 1, LabelBytes)

(***************************************************************************)
(* class BinaryWire (garbled_circuit.py lines 44-55).                      *)
(***************************************************************************)
BinaryWire(l0, l1) == [label_0 |-> l0, label_1 |-> l1]

\* BinaryWire.create(): two independent random labels.
BinaryWire_create == {BinaryWire(l0, l1) : l0 \in RandomLabels, l1 \in RandomLabels}

BinaryWire_get_label(self, value) ==
    IF value # 0 THEN self.label_1 ELSE self.label_0

(***************************************************************************)
(* class BinaryGarbledGate (garbled_circuit.py lines 58-121).              *)
(***************************************************************************)
GateType == {"AND", "XOR", "OR", "ADD", "MUL"}

\* _gate_func with OR computed for an AND gate.
gate_func_and_as_or(gate_type, a, b) ==
    IF gate_type \in {"AND", "OR"} THEN [value |-> IF a = 1 \/ b = 1 THEN 1 ELSE 0]
    ELSE IF gate_type = "XOR" THEN [value |-> (a + b) % 2]
    ELSE ValueError

\* _gate_func: a & b, a ^ b, a | b on bits, ValueError otherwise.
gate_func(gate_type, a, b) ==
    IF gate_type = "AND" THEN [value |-> a * b]
    ELSE IF gate_type = "XOR" THEN [value |-> (a + b) % 2]
    ELSE IF gate_type = "OR" THEN [value |-> IF a = 1 \/ b = 1 THEN 1 ELSE 0]
    ELSE ValueError

\* A row masked with the hash of the labels in the other order.
garble_row_key_swapped(gate_type, in_a, in_b, out, a, b) ==
    LET label_a   == BinaryWire_get_label(in_a, a)
        label_b   == BinaryWire_get_label(in_b, b)
        out_val   == gate_func(gate_type, a, b).value
        label_out == BinaryWire_get_label(out, out_val)
        key       == hash_with(label_b, <<label_a>>)
    IN  xor_bytes(key, label_out.label)

\* One row of the loop of _garble (lines 93-104): the ciphertext for the
\* input bits (a, b) of a gate whose type _gate_func supports.
garble_row(gate_type, in_a, in_b, out, a, b) ==
    LET label_a   == BinaryWire_get_label(in_a, a)
        label_b   == BinaryWire_get_label(in_b, b)
        out_val   == gate_func(gate_type, a, b).value
        label_out == BinaryWire_get_label(out, out_val)
        key       == hash_with(label_a, <<label_b>>)
    IN  xor_bytes(key, label_out.label)

\* The input-bit combinations in the order of the loops of _garble.
Rows == <<<<0, 0>>, <<0, 1>>, <<1, 0>>, <<1, 1>>>>

\* The loop of _garble (lines 87-104): the table before the shuffle; the
\* ValueError of _gate_func is raised in the first iteration.
garble_rows(gate_type, in_a, in_b, out) ==
    IF Raised(gate_func(gate_type, Rows[1][1], Rows[1][2]))
    THEN ValueError
    ELSE [value |->
            [i \in 1 .. Len(Rows) |->
                garble_row(gate_type, in_a, in_b, out, Rows[i][1], Rows[i][2])]]

\* The orders secrets.SystemRandom().shuffle can leave a list of n in.
shuffle_orders(n) ==
    {f \in [1 .. n -> 1 .. n] : \A i, j \in 1 .. n : f[i] = f[j] => i = j}

RowOrders == shuffle_orders(Len(Rows))

shuffle(table, perm) == [i \in 1 .. Len(table) |-> table[perm[i]]]

\* The end of _garble (lines 106-108): the table shuffled into the order
\* the shuffle chose, and returned.
garble_shuffle(rows, perm) ==
    IF Raised(rows) THEN ValueError ELSE [value |-> shuffle(rows.value, perm)]

\* _garble (lines 85-108).
garble(gate_type, in_a, in_b, out, perm) ==
    garble_shuffle(garble_rows(gate_type, in_a, in_b, out), perm)

\* __init__ (lines 67-73) given what self._garble() returned: the gate
\* object, or the error of _garble.
BinaryGarbledGate_init(gate_type, in_wire_a, in_wire_b, out_wire, table) ==
    IF Raised(table)
    THEN ValueError
    ELSE [gate_type |-> gate_type, in_a |-> in_wire_a, in_b |-> in_wire_b,
          out |-> out_wire, garbled_table |-> table.value]

BinaryGarbledGate(gate_type, in_wire_a, in_wire_b, out_wire, perm) ==
    BinaryGarbledGate_init(gate_type, in_wire_a, in_wire_b, out_wire,
        garble(gate_type, in_wire_a, in_wire_b, out_wire, perm))

\* evaluate unmasking the last entry of the table, not the first.
evaluate_last(self, label_a, label_b) ==
    LET key == hash_with(label_a, <<label_b>>)
    IN  IF Len(self.garbled_table) >= 1
        THEN BinaryLabel(xor_bytes(key,
                 self.garbled_table[Len(self.garbled_table)]))
        ELSE ValueError

\* evaluate rejecting a decryption that is no label of the output wire.
evaluate_checked(self, label_a, label_b) ==
    LET key == hash_with(label_a, <<label_b>>)
        decrypted == BinaryLabel(xor_bytes(key, self.garbled_table[1]))
    IN  IF Len(self.garbled_table) >= 1
           /\ decrypted \in {self.out.label_0, self.out.label_1}
        THEN decrypted
        ELSE ValueError

\* evaluate (lines 110-121): the loop returns in its first iteration.
evaluate(self, label_a, label_b) ==
    LET key == hash_with(label_a, <<label_b>>)
    IN  IF Len(self.garbled_table) >= 1
        THEN BinaryLabel(xor_bytes(key, self.garbled_table[1]))
        ELSE ValueError

(***************************************************************************)
(* binary_circuit.py: the gate counter of a binary field circuit.  A       *)
(* method of BinaryFieldCircuit is modelled by the object after the call   *)
(* (self) and the GateCount it returns (out).                              *)
(***************************************************************************)
GateCount(and_gates, xor_gates, not_gates) ==
    [and_gates |-> and_gates, xor_gates |-> xor_gates,
     not_gates |-> not_gates]

GateCount_total(self) == self.and_gates + self.xor_gates + self.not_gates

GateCount_add(self, other) ==
    GateCount(self.and_gates + other.and_gates,
              self.xor_gates + other.xor_gates,
              self.not_gates + other.not_gates)

DefaultBitWidth == 256

BinaryFieldCircuit(bit_width) ==
    [bit_width |-> bit_width, total_gates |-> GateCount(0, 0, 0)]

\* self.total_gates = self.total_gates + gates; return gates
counted(self, gates) ==
    [self |-> [self EXCEPT !.total_gates = GateCount_add(@, gates)],
     out  |-> gates]

binary_addition(self) ==
    counted(self, GateCount(2 * self.bit_width, 3 * self.bit_width, 0))

binary_multiplication(self) ==
    LET n == self.bit_width
        and_gates == n * n
    IN  counted(self, GateCount(and_gates + (n - 1) * 2 * n,
                                (n - 1) * 3 * n, 0))

modular_reduction(self) ==
    LET n == self.bit_width
        mult == binary_multiplication(self)
        mult_gates == mult.out
    IN  counted(mult.self, GateCount(mult_gates.and_gates * 2,
                                     mult_gates.xor_gates * 2, n))

field_multiplication(self) ==
    LET mult == binary_multiplication(self)
        red  == modular_reduction(mult.self)
    IN  [self |-> red.self, out |-> GateCount_add(mult.out, red.out)]

field_inversion(self) ==
    LET n == self.bit_width
        iterations == n
    IN  counted(self, GateCount(iterations * n * 10, iterations * n * 15,
                                iterations * n))

\* gates = gates + self.method(): acc holds the object and gates so far,
\* r is the call made on acc.self.
plus(acc, r) == [self |-> r.self, out |-> GateCount_add(acc.out, r.out)]

ec_point_addition(self) ==
    LET g0 == [self |-> self, out |-> GateCount(0, 0, 0)]
        g1 == plus(g0, field_inversion(g0.self))
        g2 == plus(g1, field_multiplication(g1.self))
        g3 == plus(g2, field_multiplication(g2.self))
        g4 == plus(g3, binary_addition(g3.self))
        g5 == plus(g4, binary_addition(g4.self))
        g6 == plus(g5, binary_addition(g5.self))
        g7 == plus(g6, field_multiplication(g6.self))
        g8 == plus(g7, binary_addition(g7.self))
    IN  g8

\* The object and the gates after the given number of iterations of the
\* loop; each iteration starts from the value the previous one left.  The
\* loop over range(operations) does not run for operations <= 0.
RECURSIVE ec_scalar_multiplication_loop(_, _)
ec_scalar_multiplication_loop(self, operations) ==
    IF operations <= 0
    THEN [self |-> self, out |-> GateCount(0, 0, 0)]
    ELSE CHOOSE after \in
             {plus(gates, ec_point_addition(gates.self)) :
                  gates \in {ec_scalar_multiplication_loop(self,
                                                           operations - 1)}} :
             TRUE

ec_scalar_multiplication(self, scalar_bits) ==
    LET operations == scalar_bits + scalar_bits \div 2
    IN  ec_scalar_multiplication_loop(self, operations)

(***************************************************************************)
(* point_add (ec_mac.py lines 71-91).                                      *)
(***************************************************************************)
\* The slope of lines 82-87, given the inverse the branch computed.
slope(p1, p2, inv, doubling) ==
    IF doubling
    THEN int_mod(int_mul(int_mul(int_mul(int(3), p1.x), p1.x), inv), P)
    ELSE int_mod(int_mul(int_sub(p2.y, p1.y), inv), P)

\* The addition formula with y3 computed from p2.x, not p1.x.
point_add_finite_y_from_p2(p1, p2, inv, doubling) ==
    CHOOSE r \in
        {CHOOSE s \in
             {Point(x3, int_mod(int_sub(int_mul(lam, int_sub(p2.x, x3)),
                                        p1.y), P)) :
              x3 \in {int_mod(int_sub(int_sub(int_mul(lam, lam), p1.x),
                                      p2.x), P)}} : TRUE :
         lam \in {slope(p1, p2, inv, doubling)}} : TRUE

\* The addition formula with p2.x left out of x3.
point_add_finite_x_without_p2(p1, p2, inv, doubling) ==
    CHOOSE r \in
        {CHOOSE s \in
             {Point(x3, int_mod(int_sub(int_mul(lam, int_sub(p1.x, x3)),
                                        p1.y), P)) :
              x3 \in {int_mod(int_sub(int_mul(lam, lam), p1.x), P)}} : TRUE :
         lam \in {slope(p1, p2, inv, doubling)}} : TRUE

\* Lines 88-91: x3 and y3 from the slope lam.
point_add_finite(p1, p2, inv, doubling) ==
    CHOOSE r \in
        {CHOOSE s \in
             {Point(x3, int_mod(int_sub(int_mul(lam, int_sub(p1.x, x3)),
                                        p1.y), P)) :
              x3 \in {int_mod(int_sub(int_sub(int_mul(lam, lam), p1.x),
                                      p2.x), P)}} : TRUE :
         lam \in {slope(p1, p2, inv, doubling)}} : TRUE

\* Lines 81-91: the inverse of the branch, which may raise, then the sum.
\* The modulus is P, on which extended_gcd makes under 400 calls: the call
\* of mod_inverse has one result.
point_add_branch(p1, p2, doubling) ==
    CHOOSE r \in
        {IF Raised(inv)
         THEN inv
         ELSE point_add_finite(p1, p2, inv.value, doubling) :
         inv \in {Only(IF doubling
                       THEN Call("mod_inverse", <<int_mul(int(2), p1.y), P>>)
                       ELSE Call("mod_inverse",
                                 <<int_sub(p2.x, p1.x), P>>))}} : TRUE

\* point_add without the test for p1 = -p2 (lines 78-79 left out).
point_add_no_negation(q1, q2) ==
    CHOOSE r \in
        {IF Raised(p1) THEN p1
         ELSE IF Raised(p2) THEN p2
         ELSE IF p1.is_infinity THEN p2
         ELSE IF p2.is_infinity THEN p1
         ELSE point_add_branch(p1, p2, p1.x = p2.x) :
         p1 \in {q1}, p2 \in {q2}} : TRUE

\* point_add returning the infinite operand itself when p2 is infinity.
point_add_wrong_identity(q1, q2) ==
    CHOOSE r \in
        {IF Raised(p1) THEN p1
         ELSE IF Raised(p2) THEN p2
         ELSE IF p1.is_infinity THEN p2
         ELSE IF p2.is_infinity THEN p2
         ELSE IF p1.x = p2.x /\ p1.y # p2.y THEN infinity
         ELSE point_add_branch(p1, p2, p1.x = p2.x) :
         p1 \in {q1}, p2 \in {q2}} : TRUE

point_add(q1, q2) ==
    CHOOSE r \in
        {IF Raised(p1) THEN p1
         ELSE IF Raised(p2) THEN p2
         ELSE IF p1.is_infinity THEN p2
         ELSE IF p2.is_infinity THEN p1
         ELSE IF p1.x = p2.x /\ p1.y # p2.y THEN infinity
         ELSE point_add_branch(p1, p2, p1.x = p2.x) :
         p1 \in {q1}, p2 \in {q2}} : TRUE

(***************************************************************************)
(* point_mul (ec_mac.py lines 94-109).  The state of the while loop is     *)
(* (k, result, addend), with n, the number of iterations begun.  An        *)
(* exception of point_add ends the loop: it is the value of result or of   *)
(* addend from then on.                                                    *)
(***************************************************************************)
\* The loop body with the doubling done before the conditional addition.
point_mul_step_double_first(st) ==
    CHOOSE r \in
        {[k |-> int_shr1(st.k),
          result |-> IF int_odd(st.k)
                     THEN Call("point_add", <<st.result, addend1>>)
                     ELSE st.result,
          addend |-> addend1,
          n |-> st.n + 1] :
         addend1 \in {Call("point_add", <<st.addend, st.addend>>)}} : TRUE

\* Lines 105-108, one iteration.
point_mul_step(st) ==
    CHOOSE r \in
        {[k |-> int_shr1(st.k),
          result |-> result1,
          addend |-> IF Raised(result1)
                     THEN result1
                     ELSE Call("point_add", <<st.addend, st.addend>>),
          n |-> st.n + 1] :
         result1 \in {IF int_odd(st.k)
                      THEN Call("point_add", <<st.result, st.addend>>)
                      ELSE st.result}} : TRUE

\* while k: up to 2^n iterations, ending when k is 0 or point_add raised.
RECURSIVE point_mul_loop(_, _)
point_mul_loop(st, n) ==
    IF st.k = Zero \/ Raised(st.addend) THEN st
    ELSE IF n = 0 THEN point_mul_step(st)
    ELSE CHOOSE r \in {point_mul_loop(l, n - 1) :
                       l \in {point_mul_loop(st, n - 1)}} : TRUE

\* Lines 100-109 for k != 0: k = k % N, the loop, and what is returned (or
\* raised) with the number of iterations begun.
point_mul_while(k0, p) ==
    CHOOSE r \in
        {[result |-> IF Raised(st.addend) THEN st.addend ELSE st.result,
          n |-> st.n] :
         st \in {CHOOSE s \in
                     {point_mul_loop([k |-> k1, result |-> infinity,
                                      addend |-> p, n |-> 0],
                                     ceil_log2(13 * Len(k1.mag) + 1)) :
                      k1 \in {int_mod(k0, N)}} : TRUE}} : TRUE

\* point_mul returning p, not infinity, for k = 0.
point_mul_run_zero_is_p(k0, p0) ==
    CHOOSE r \in
        {IF k = Zero
         THEN [result |-> p, n |-> 0]
         ELSE point_mul_while(k, p) :
         k \in {k0}, p \in {p0}} : TRUE

\* The loop scanning every bit of N, whatever the scalar.
point_mul_run_all_bits(k0, p0) ==
    CHOOSE r \in
        {IF k = Zero
         THEN [result |-> infinity, n |-> 0]
         ELSE [result |-> point_mul_while(k, p).result,
               n |-> bit_length(N)] :
         k \in {k0}, p \in {p0}} : TRUE

\* A call of point_mul: what it returns (or raises), and the number of
\* iterations of its loop that were begun.
point_mul_run(k0, p0) ==
    CHOOSE r \in
        {IF k = Zero
         THEN [result |-> infinity, n |-> 0]
         ELSE point_mul_while(k, p) :
         k \in {k0}, p \in {p0}} : TRUE

point_mul(k, p) == Call("point_mul_run", <<k, p>>).result

(***************************************************************************)
(* class ECMac (ec_mac.py lines 112-144): a dataclass of one field, tag.   *)
(***************************************************************************)
ECMac(t) == [tag |-> t]

\* g_term = point_mul(key, G); h_term = point_mul(value, h_point)
ECMac_create(key, value, h_point) ==
    ECMac(Call("point_add", <<Call("point_mul", <<key, generator>>),
                              Call("point_mul", <<value, h_point>>)>>))

ECMac_add(self, other) == ECMac(Call("point_add", <<self.tag, other.tag>>))

ECMac_scalar_mul(self, scalar) ==
    ECMac(Call("point_mul", <<scalar, self.tag>>))

(***************************************************************************)
(* class ArgoWire (ec_mac.py lines 147-191).  ArgoWire(value, mac, h) is   *)
(* __init__, which reduces the value mod N.  An exception raised while     *)
(* the MAC is computed leaves no wire: the exception is the result.        *)
(***************************************************************************)
ArgoWire(value, mac0, h_point) ==
    CHOOSE r \in
        {IF Raised(mac.tag)
         THEN mac.tag
         ELSE [value |-> int_mod(value, N), mac |-> mac,
               h_point |-> h_point] :
         mac \in {mac0}} : TRUE

ArgoWire_create(value0, key, h_point0) ==
    CHOOSE r \in
        {ArgoWire(value, Call("ECMac_create", <<key, value, h_point>>),
                  h_point) :
         value \in {value0}, h_point \in {h_point0}} : TRUE

\* add that sums the values and keeps its own MAC.
ArgoWire_add_mac_kept(self0, other0) ==
    CHOOSE r \in
        {IF Raised(self) THEN self
         ELSE IF Raised(other) THEN other
         ELSE ArgoWire(int_mod(int_add(self.value, other.value), N),
                       self.mac, self.h_point) :
         self \in {self0}, other \in {other0}} : TRUE

\* new_value = (self.value + other.value) % N; new_mac = self.mac.add(..)
ArgoWire_add(self0, other0) ==
    CHOOSE r \in
        {IF Raised(self) THEN self
         ELSE IF Raised(other) THEN other
         ELSE ArgoWire(int_mod(int_add(self.value, other.value), N),
                       Call("ECMac_add", <<self.mac, other.mac>>),
                       self.h_point) :
         self \in {self0}, other \in {other0}} : TRUE

\* mul_const that scales the value and keeps the MAC.
ArgoWire_mul_const_mac_kept(self0, c0) ==
    CHOOSE r \in
        {IF Raised(self)
         THEN self
         ELSE ArgoWire(int_mod(int_mul(c, self.value), N), self.mac,
                       self.h_point) :
         self \in {self0}, c \in {int_mod(c0, N)}} : TRUE

\* c = c % N; new_value = (c * self.value) % N;
\* new_mac = self.mac.scalar_mul(c)
ArgoWire_mul_const(self0, c0) ==
    CHOOSE r \in
        {IF Raised(self)
         THEN self
         ELSE ArgoWire(int_mod(int_mul(c, self.value), N),
                       Call("ECMac_scalar_mul", <<self.mac, c>>),
                       self.h_point) :
         self \in {self0}, c \in {int_mod(c0, N)}} : TRUE

\* verify that compares the wire's tag with itself.
ArgoWire_verify_own_tag(self0, key) ==
    CHOOSE r \in
        {[value |-> Point_eq(self.mac.tag, self.mac.tag)] :
         self \in {self0}} : TRUE

\* expected = ECMac.create(key, self.value, self.h_point)
ArgoWire_verify(self0, key) ==
    CHOOSE r \in
        {CHOOSE s \in
             {IF Raised(expected.tag)
              THEN expected.tag
              ELSE [value |-> Point_eq(self.mac.tag, expected.tag)] :
              expected \in {Call("ECMac_create",
                                 <<key, self.value, self.h_point>>)}} :
             TRUE :
         self \in {self0}} : TRUE

(***************************************************************************)
(* pow(base, exp, mod) of Python for exp >= 0 and mod > 0, by square and   *)
(* multiply over the bits hi, hi - 1, .., lo of exp.                       *)
(***************************************************************************)
RECURSIVE pow_bits(_, _, _, _, _, _)
pow_bits(acc, base, exp, m, hi, lo) ==
    IF hi < lo THEN acc
    ELSE IF hi = lo
    THEN IF int_bit(exp, hi) = 1
         THEN int_mod(int_mul(int_mod(int_mul(acc, acc), m), base), m)
         ELSE int_mod(int_mul(acc, acc), m)
    ELSE LET mid == (hi + lo) \div 2
         IN  CHOOSE r \in {pow_bits(l, base, exp, m, mid, lo) :
                           l \in {pow_bits(acc, base, exp, m, hi, mid + 1)}} :
                 TRUE

pow(base0, exp0, m0) ==
    CHOOSE r \in
        {pow_bits(int_mod(One, m), int_mod(base0, m), exp, m,
                  bit_length(exp) - 1, 0) :
         exp \in {exp0}, m \in {m0}} : TRUE

(***************************************************************************)
(* generate_h_point (ec_mac.py lines 194-215).                             *)
(***************************************************************************)
\* b"argo-h-generator", the string hashed on line 201.
DomainString ==
    <<97, 114, 103, 111, 45, 104, 45, 103, 101, 110, 101, 114, 97, 116, 111,
      114>>

\* Lines 205-207 for an x: <<x, y_squared, y>>.
h_candidate(x0) ==
    CHOOSE r \in
        {CHOOSE s \in
             {<<x, y_squared,
                Call("pow", <<y_squared,
                              int_floordiv(int_add(P, One), int(4)), P>>)>> :
              y_squared \in
                  {int_mod(int_add(Call("pow", <<x, int(3), P>>), int(7)),
                           P)}} : TRUE :
         x \in {x0}} : TRUE

\* Line 209: pow(y, 2, P) != y_squared.
h_rejected(c) == Call("pow", <<c[3], int(2), P>>) # c[2]

\* generate_h_point without the retry: the first candidate is returned.
generate_h_point_no_retry ==
    CHOOSE r \in
        {Point(c0[1], c0[3]) :
         c0 \in {h_candidate(
                    int_mod(int_from_bytes(sha256_digest(DomainString)),
                            P))}} : TRUE

\* generate_h_point retrying with x + 1 and keeping the y of the first x.
generate_h_point_stale_y ==
    CHOOSE r \in
        {IF h_rejected(c0)
         THEN Point(int_mod(int_add(c0[1], One), P), c0[3])
         ELSE Point(c0[1], c0[3]) :
         c0 \in {h_candidate(
                    int_mod(int_from_bytes(sha256_digest(DomainString)),
                            P))}} : TRUE

\* h = hashlib.sha256(b"argo-h-generator").digest();
\* x = int.from_bytes(h, 'big') % P; the candidate of x, or that of x + 1.
generate_h_point ==
    CHOOSE r \in
        {IF h_rejected(c0)
         THEN CHOOSE s \in
                  {Point(c1[1], c1[3]) :
                   c1 \in {h_candidate(int_mod(int_add(c0[1], One), P))}} :
                  TRUE
         ELSE Point(c0[1], c0[3]) :
         c0 \in {h_candidate(
                    int_mod(int_from_bytes(sha256_digest(DomainString)),
                            P))}} : TRUE

\* The curve equation y^2 = x^3 + 7 (mod P), at infinity or at (x, y).
on_curve(p0) ==
    \E p \in {p0} :
        p.is_infinity
            \/ int_mod(int_mul(p.y, p.y), P)
                   = int_mod(int_add(int_mul(int_mul(p.x, p.x), p.x),
                                     int(7)), P)

(***************************************************************************)
(* The definitions Call applies.                                           *)
(***************************************************************************)
Call(f, args) ==
    CASE f = "+" -> py_add(args[1], args[2])
      [] f = "*" -> py_mul(args[1], args[2])
      [] f = "divmod" -> py_divmod(args[1], args[2])
      [] f = "extended_gcd_in_frame"
             -> extended_gcd_in_frame(args[1], args[2], args[3])
      [] f = "mod_inverse" -> mod_inverse(args[1], args[2])
      [] f = "point_add" -> point_add(args[1], args[2])
      [] f = "point_mul_run" -> point_mul_run(args[1], args[2])
      [] f = "point_mul" -> point_mul(args[1], args[2])
      [] f = "ECMac_create" -> ECMac_create(args[1], args[2], args[3])
      [] f = "ECMac_add" -> ECMac_add(args[1], args[2])
      [] f = "ECMac_scalar_mul" -> ECMac_scalar_mul(args[1], args[2])
      [] f = "ArgoWire_create" -> ArgoWire_create(args[1], args[2], args[3])
      [] f = "ArgoWire_add" -> ArgoWire_add(args[1], args[2])
      [] f = "ArgoWire_mul_const" -> ArgoWire_mul_const(args[1], args[2])
      [] f = "ArgoWire_verify" -> ArgoWire_verify(args[1], args[2])
      [] f = "pow" -> pow(args[1], args[2], args[3])
      [] f = "generate_h_point" -> generate_h_point

(***************************************************************************)
(* State.                                                                  *)
(*   H        the second generator shared by the MACs and wires of a run   *)
(*   call     the last call of a pure function: first the function and     *)
(*            its arguments (op = "call"), then the arguments and the      *)
(*            result (op = the function)                                   *)
(* The arithmetic circuit of demo.py (demo_arithmetic_circuit):            *)
(*   keys     the garbler's secret keys <<key_x, key_y>>                   *)
(*   vals     the input values <<x, y>>                                    *)
(*   wire     the wires by the name of their variable: wire_x, wire_y,     *)
(*            wire_3x, wire_2y, wire_result                                *)
(*   coef     for each wire, the coefficients <<cx, cy>> (mod N) of the    *)
(*            linear combination of the inputs the circuit computes on     *)
(*            it; the garbler derives its output key from them             *)
(*   nsteps   the number of transforms applied to wire_result after the    *)
(*            circuit of the demo                                          *)
(*   valid    the garbler's verify of wire_result: output_key and result   *)
(*   fake_wire   the forged wire                                           *)
(*   fake_valid  the garbler's verify of fake_wire                         *)
(* The binary gate of garbled_circuit.py (demo_binary_garbled_gate):       *)
(*   wire_a, wire_b, wire_out  the BinaryWire objects                      *)
(*   gate     the BinaryGarbledGate built from them                        *)
(*   result   the last evaluate call: input bits, labels, returned label   *)
(* The gate counter of binary_circuit.py:                                  *)
(*   circuit  the BinaryFieldCircuit object: bit_width and total_gates     *)
(*   returned the component-wise sum of the GateCounts its calls returned  *)
(*   last     the last public call: method name and returned GateCount     *)
(*   ncalls   the number of public calls made on the circuit               *)
(***************************************************************************)
VARIABLES H, call, keys, vals, wire, coef, nsteps, valid, fake_wire,
          fake_valid,
          wire_a, wire_b, wire_out, gate, result,
          circuit, returned, last, ncalls

callVars == <<call>>
wireVars == <<keys, vals, wire, coef, nsteps, valid, fake_wire, fake_valid>>
gateVars == <<wire_a, wire_b, wire_out, gate, result>>
circuitVars == <<circuit, returned, last, ncalls>>
vars == <<H, call, keys, vals, wire, coef, nsteps, valid, fake_wire,
          fake_valid,
          wire_a, wire_b, wire_out, gate, result,
          circuit, returned, last, ncalls>>

NoGate == [state |-> "none"]
NoResult == [op |-> "none"]
NoBinaryWire == [state |-> "none"]

GateIdle ==
    /\ wire_a = NoBinaryWire
    /\ wire_b = NoBinaryWire
    /\ wire_out = NoBinaryWire
    /\ gate = NoGate
    /\ result = NoResult

\* No second generator: garbled_circuit.py and binary_circuit.py have none.
NoPoint == [state |-> "none"]

NoCall == [op |-> "none"]
NoVerdict == [op |-> "none"]
NoWires == <<>>
NoWire == [state |-> "none"]

NoLast == [method |-> "none"]

CircuitIdle ==
    /\ circuit = BinaryFieldCircuit(DefaultBitWidth)
    /\ returned = GateCount(0, 0, 0)
    /\ last = NoLast
    /\ ncalls = 0

WiresIdle ==
    /\ keys = NoWires
    /\ vals = NoWires
    /\ wire = NoWires
    /\ coef = NoWires
    /\ nsteps = 0
    /\ valid = NoVerdict
    /\ fake_wire = NoWire
    /\ fake_valid = NoVerdict

(***************************************************************************)
(* Inputs of the elliptic-curve functions.                                 *)
(***************************************************************************)
\* H = generate_h_point()             (ec_mac.py line 224, demo.py line 39)
HPoints == {generate_h_point}

\* -Q for a finite Q = (x, y): (x, (P - y) mod P).
point_neg(q) == Point(q.x, int_mod(int_sub(P, q.y), P))

\* Scalars: the small ones, those at and above N, the negative ones of the
\* same residues (-N, 1 - N, ..), and -1, whose residue N - 1 has 256 bits.
MaxScalar == 3
SmallScalars == {int(n) : n \in 0 .. MaxScalar}

MaxExcess == 2
AboveN == {int_add(N, int(n)) : n \in 0 .. MaxExcess}

BelowZero == {int_sub(int(n), N) : n \in 0 .. MaxExcess}

Scalars == SmallScalars \cup AboveN \cup BelowZero

FullSizeScalars == {int(0 - 1)}

\* Points of the curve: the small multiples of the generator, its negation
\* and the second generator.
CurvePoints ==
    {Call("point_mul", <<k, generator>>) : k \in SmallScalars}
        \cup {point_neg(generator), H}

\* Point objects that are not on the curve; point_add accepts any Point.
OffCurvePoints == {Point(int(5), Zero), Point(int(7), int(8))}

InputPoints == CurvePoints \cup OffCurvePoints

\* Keys and values of the MACs and wires.
MaxValue == 1
Values == {int(v) : v \in 0 .. MaxValue}

Keys == {Zero, One, int(2)}

(***************************************************************************)
(* Calls of the functions of ec_mac.py, one per run.  A call is two steps: *)
(* the arguments are drawn and the call is made; the function runs and     *)
(* returns, and arguments and result are recorded.                         *)
(***************************************************************************)
InitCurve ==
    /\ H \in HPoints
    /\ call = NoCall
    /\ WiresIdle
    /\ GateIdle
    /\ CircuitIdle

Called(f) == call.op = "call" /\ call.f = f

\* mod_inverse(a, m) and mod_inverse(a % m, m): the moduli 2..MaxModulus
\* with the arguments below 0, in [0, m) and above m, and the field's
\* modulus.
MaxModulus == 12
Moduli == {int(m) : m \in 2 .. MaxModulus}
Arguments(m) ==
    {a \in {int_sub(int(i), m) : i \in 0 .. 3 * MaxModulus} :
        ~int_lt(int_add(m, m), a)}

\* Arguments of the inverses the field needs: 0, units, multiples of P,
\* negative numbers, a coordinate.
FieldArguments ==
    {Zero, One, int(2), int(0 - 1), int(0 - 2), int_sub(P, One), P,
     int_add(P, One), int_add(P, P), int_neg(P), G_X, int_neg(G_Y)}

\* <<F(n), F(n + 1)>> of the Fibonacci numbers, the arguments on which
\* Euclid's algorithm takes the most steps: n calls of extended_gcd for
\* n >= 2.
\* F(2k) = F(k) * (2 * F(k + 1) - F(k)), F(2k + 1) = F(k)^2 + F(k + 1)^2.
RECURSIVE fib_pair(_)
fib_pair(n) ==
    IF n = 0 THEN <<Zero, One>>
    ELSE CHOOSE r \in
             {CHOOSE s \in
                  {IF n % 2 = 0 THEN <<c, d>> ELSE <<d, int_add(c, d)>> :
                   c \in {int_mul(h[1], int_sub(int_mul(int(2), h[2]),
                                                h[1]))},
                   d \in {int_add(int_mul(h[1], h[1]),
                                  int_mul(h[2], h[2]))}} : TRUE :
              h \in {fib_pair(n \div 2)}} : TRUE

\* Three long chains of calls: one that fits in the frames the interpreter
\* allows, the one whose last call runs in the last frame, and F(1200),
\* F(1201), which does not fit.
MinChain == 900
MaxChain == 1200
LastFrameChain == RecursionLimit - (CallerFrames + 1)
LongChains ==
    {fib_pair(MinChain), fib_pair(LastFrameChain), fib_pair(MaxChain)}

CallModInverse ==
    /\ call = NoCall
    /\ \E am \in UNION {{<<a, m>> : a \in Arguments(m)} : m \in Moduli}
                   \cup (FieldArguments \X {P}) \cup LongChains :
         call' = [op |-> "call", f |-> "mod_inverse", a |-> am[1],
                  m |-> am[2]]
    /\ UNCHANGED <<H, circuitVars, wireVars, gateVars>>

ReturnModInverse ==
    /\ Called("mod_inverse")
    /\ \E out \in Call("mod_inverse", <<call.a, call.m>>),
          reduced \in Call("mod_inverse",
                           <<int_mod(call.a, call.m), call.m>>) :
         call' = [op |-> "mod_inverse", a |-> call.a, m |-> call.m,
                  out |-> out, reduced |-> reduced]
    /\ UNCHANGED <<H, circuitVars, wireVars, gateVars>>

\* generate_h_point(), which takes no argument.
CallGenerateH ==
    /\ call = NoCall
    /\ call' = [op |-> "call", f |-> "generate_h_point"]
    /\ UNCHANGED <<H, circuitVars, wireVars, gateVars>>

ReturnGenerateH ==
    /\ Called("generate_h_point")
    /\ call' = [op |-> "generate_h_point",
                out |-> Call("generate_h_point", <<>>)]
    /\ UNCHANGED <<H, circuitVars, wireVars, gateVars>>

NextField ==
    \/ CallModInverse
    \/ ReturnModInverse
    \/ CallGenerateH
    \/ ReturnGenerateH

SpecField == InitCurve /\ [][NextField]_vars

\* point_add(p1, p2) and point_add(p2, p1) on any two Point objects.
CallPointAdd ==
    /\ call = NoCall
    /\ \E p1 \in InputPoints, p2 \in InputPoints :
         call' = [op |-> "call", f |-> "point_add", p1 |-> p1, p2 |-> p2]
    /\ UNCHANGED <<H, circuitVars, wireVars, gateVars>>

ReturnPointAdd ==
    /\ Called("point_add")
    /\ call' = [op |-> "point_add", p1 |-> call.p1, p2 |-> call.p2,
                out |-> Call("point_add", <<call.p1, call.p2>>),
                rev |-> Call("point_add", <<call.p2, call.p1>>)]
    /\ UNCHANGED <<H, circuitVars, wireVars, gateVars>>

\* point_mul(k, p) on a scalar and a Point object, with the number of
\* iterations of its loop; the full-size scalar on the generator.
MulPoints == {infinity, generator, H, Point(int(7), int(8))}

CallPointMul ==
    /\ call = NoCall
    /\ \E kp \in (Scalars \X MulPoints) \cup (FullSizeScalars \X {generator}) :
         call' = [op |-> "call", f |-> "point_mul", k |-> kp[1], p |-> kp[2]]
    /\ UNCHANGED <<H, circuitVars, wireVars, gateVars>>

ReturnPointMul ==
    /\ Called("point_mul")
    /\ \E run \in {Call("point_mul_run", <<call.k, call.p>>)} :
         call' = [op |-> "point_mul", k |-> call.k, p |-> call.p,
                  out |-> run.result, iterations |-> run.n]
    /\ UNCHANGED <<H, circuitVars, wireVars, gateVars>>

NextPoint ==
    \/ CallPointAdd
    \/ ReturnPointAdd
    \/ CallPointMul
    \/ ReturnPointMul

SpecPoint == InitCurve /\ [][NextPoint]_vars

\* mac1 = ECMac.create(k1, v1, H); mac2 = ECMac.create(k2, v2, H);
\* mac_sum = mac1.add(mac2)                       (ec_mac.py lines 237-244)
\* on small keys and values, and on the keys N - 1 and 1, whose tags are
\* opposite and whose sum wraps around N.
FullSizeKeys == {<<int_sub(N, One), Zero, One, Zero>>}

CallMacAdd ==
    /\ call = NoCall
    /\ \E kv \in (Keys \X Values \X Keys \X Values) \cup FullSizeKeys :
         call' = [op |-> "call", f |-> "ECMac.add", k1 |-> kv[1],
                  v1 |-> kv[2], k2 |-> kv[3], v2 |-> kv[4]]
    /\ UNCHANGED <<H, circuitVars, wireVars, gateVars>>

ReturnMacAdd ==
    /\ Called("ECMac.add")
    /\ \E mac1 \in {Call("ECMac_create", <<call.k1, call.v1, H>>)},
          mac2 \in {Call("ECMac_create", <<call.k2, call.v2, H>>)} :
         call' = [op |-> "ECMac.add", k1 |-> call.k1, v1 |-> call.v1,
                  k2 |-> call.k2, v2 |-> call.v2,
                  mac1 |-> mac1, mac2 |-> mac2,
                  out |-> Call("ECMac_add", <<mac1, mac2>>)]
    /\ UNCHANGED <<H, circuitVars, wireVars, gateVars>>

\* mac1 = ECMac.create(k, v, H); mac_scaled = mac1.scalar_mul(c)
\*                                                (ec_mac.py lines 237-254)
MacScalarKeys == {Zero, One, int_add(N, One)}
MacScalars == {Zero} \cup (AboveN \ {N}) \cup (BelowZero \ {int_neg(N)})
                  \cup {int(MaxScalar)}

CallMacScalarMul ==
    /\ call = NoCall
    /\ \E k \in MacScalarKeys, v \in Values, c \in MacScalars :
         call' = [op |-> "call", f |-> "ECMac.scalar_mul", k |-> k, v |-> v,
                  c |-> c]
    /\ UNCHANGED <<H, circuitVars, wireVars, gateVars>>

ReturnMacScalarMul ==
    /\ Called("ECMac.scalar_mul")
    /\ \E mac1 \in {Call("ECMac_create", <<call.k, call.v, H>>)} :
         call' = [op |-> "ECMac.scalar_mul", k |-> call.k, v |-> call.v,
                  c |-> call.c, mac1 |-> mac1,
                  out |-> Call("ECMac_scalar_mul", <<mac1, call.c>>)]
    /\ UNCHANGED <<H, circuitVars, wireVars, gateVars>>

NextMac ==
    \/ CallMacAdd
    \/ ReturnMacAdd
    \/ CallMacScalarMul
    \/ ReturnMacScalarMul

SpecMac == InitCurve /\ [][NextMac]_vars

\* Python's sum() of a list, and the fold of add over a list of wires
\* (demo.py lines 134-136, 141).
RECURSIVE sum(_)
sum(seq) == IF seq = <<>> THEN Zero ELSE int_add(seq[1], sum(Tail(seq)))

RECURSIVE fold_add(_, _)
fold_add(result_wire, wires) ==
    IF wires = <<>>
    THEN result_wire
    ELSE fold_add(Call("ArgoWire_add", <<result_wire, wires[1]>>), Tail(wires))

\* [ArgoWire.create(p, k, h_point) for p, k in zip(products, keys)]
RECURSIVE create_all(_, _, _)
create_all(products, keys_products, h_point) ==
    IF products = <<>>
    THEN <<>>
    ELSE <<Call("ArgoWire_create",
                <<products[1], keys_products[1], h_point>>)>>
             \o create_all(Tail(products), Tail(keys_products), h_point)

\* The number of wires summed, the values they carry and their keys, a
\* fresh one for each wire; and one pair of values whose sum exceeds N.
MaxWires == 3
Products == {One, int(2)}
SeqsUpTo(S, n) == UNION {[1 .. m -> S] : m \in 1 .. n}
FullSizeProducts == {<<int_sub(N, One), int(2)>>}
FreshKeys(n) == [i \in 1 .. n |-> int(i)]

\* wires_products = [ArgoWire.create(p, k, H) ...]; result_wire is their
\* sum; valid = result_wire.verify(sum(keys_products) % N)
\*                                                (demo.py lines 129-142)
CallWireSum ==
    /\ call = NoCall
    /\ \E products \in SeqsUpTo(Products, MaxWires) \cup FullSizeProducts :
         call' = [op |-> "call", f |-> "sum", products |-> products,
                  keys_products |-> FreshKeys(Len(products))]
    /\ UNCHANGED <<H, circuitVars, wireVars, gateVars>>

ReturnWireSum ==
    /\ Called("sum")
    /\ \E wires_products \in
           {create_all(call.products, call.keys_products, H)} :
         \E result_wire \in
                {fold_add(wires_products[1], Tail(wires_products))} :
           call' = [op |-> "sum", products |-> call.products,
                    keys_products |-> call.keys_products,
                    result_wire |-> result_wire,
                    valid |-> Call("ArgoWire_verify", <<result_wire,
                                  int_mod(sum(call.keys_products), N)>>)]
    /\ UNCHANGED <<H, circuitVars, wireVars, gateVars>>

\* wire = ArgoWire.create(v, k, H); wire.mul_const(c), wire.mul_const(c + N)
\* and the verification of the first under (c * k) % N
\*                                                (demo.py lines 53-64, 74-76)
MulConstValues == Values \cup {int(MaxValue + 1)}
MulConstKeys == {Zero, One}
MulConsts == {Zero, int(2), int_add(N, int(2)), int_sub(int(2), N)}

CallWireMulConst ==
    /\ call = NoCall
    /\ \E v \in MulConstValues, k \in MulConstKeys :
         \E w \in {Call("ArgoWire_create", <<v, k, H>>)} :
           \E c \in MulConsts :
             call' = [op |-> "call", f |-> "mul_const", v |-> v, k |-> k,
                      c |-> c, wire |-> w]
    /\ UNCHANGED <<H, circuitVars, wireVars, gateVars>>

ReturnWireMulConst ==
    /\ Called("mul_const")
    /\ \E out \in {Call("ArgoWire_mul_const", <<call.wire, call.c>>)} :
         call' = [op |-> "mul_const", v |-> call.v, k |-> call.k,
                  c |-> call.c, wire |-> call.wire, out |-> out,
                  out_plus_n |-> Call("ArgoWire_mul_const", <<call.wire,
                                                    int_add(call.c, N)>>),
                  valid |-> Call("ArgoWire_verify", <<out,
                                int_mod(int_mul(call.c, call.k), N)>>)]
    /\ UNCHANGED <<H, circuitVars, wireVars, gateVars>>

\* a = ArgoWire.create(v1, k1, h1); b = ArgoWire.create(v2, k2, h2);
\* a.add(b), for second generators h1, h2 that may differ, and the garbler's
\* verify of the result under the sum of the keys.
CallWireAdd ==
    /\ call = NoCall
    /\ \E h2 \in {H, Call("point_add", <<H, H>>)} :
         \E k1 \in {One}, k2 \in {One, int(2)}, v1 \in Values, v2 \in Values :
           \E a \in {Call("ArgoWire_create", <<v1, k1, H>>)},
              b \in {Call("ArgoWire_create", <<v2, k2, h2>>)} :
             call' = [op |-> "call", f |-> "ArgoWire.add", a |-> a, b |-> b,
                      k1 |-> k1, k2 |-> k2]
    /\ UNCHANGED <<H, circuitVars, wireVars, gateVars>>

ReturnWireAdd ==
    /\ Called("ArgoWire.add")
    /\ \E out \in {Call("ArgoWire_add", <<call.a, call.b>>)} :
         call' = [op |-> "ArgoWire.add", a |-> call.a, b |-> call.b,
                  out |-> out,
                  valid |-> IF Raised(out) THEN out
                            ELSE Call("ArgoWire_verify", <<out,
                                     int_mod(int_add(call.k1, call.k2), N)>>)]
    /\ UNCHANGED <<H, circuitVars, wireVars, gateVars>>

NextWire ==
    \/ CallWireSum
    \/ ReturnWireSum
    \/ CallWireMulConst
    \/ ReturnWireMulConst
    \/ CallWireAdd
    \/ ReturnWireAdd

SpecWire == InitCurve /\ [][NextWire]_vars

\* wire = ArgoWire.create(v, k, H); wire.verify(key) for the key itself, the
\* keys congruent to it and keys of other classes.
KeyOffsets == {Zero, One} \cup AboveN \cup (BelowZero \ {int_sub(int(2), N)})

CallVerify ==
    /\ call = NoCall
    /\ \E v \in Values, k \in Keys :
         \E w \in {Call("ArgoWire_create", <<v, k, H>>)} :
           \E d \in KeyOffsets :
             call' = [op |-> "call", f |-> "verify", v |-> v, k |-> k,
                      key |-> int_add(k, d), wire |-> w]
    /\ UNCHANGED <<H, circuitVars, wireVars, gateVars>>

ReturnVerify ==
    /\ Called("verify")
    /\ call' = [op |-> "verify", v |-> call.v, k |-> call.k,
                key |-> call.key, wire |-> call.wire,
                valid |-> Call("ArgoWire_verify", <<call.wire, call.key>>)]
    /\ UNCHANGED <<H, circuitVars, wireVars, gateVars>>

\* The circuit c1*x + c2*y of demo.py with an evaluator who may replace the
\* value of an input wire (by d1, d2 more) and of the intermediate wire c1*x
\* (by d3 more), keeping each tag as fake_wire does (demo.py lines 84-88);
\* the garbler verifies the output under c1*key_x + c2*key_y.
\* <<x, y>> and the garbler's <<key_x, key_y>>.
WireValues == {<<int(2), One>>}
WireKeys == {<<One, int(2)>>}

TamperConsts == {Zero, int(2)}
Offsets == {Zero, One, int_sub(N, One)}

tamper(w, d) == ArgoWire(int_add(w.value, d), w.mac, w.h_point)

CallTamperedCircuit ==
    /\ call = NoCall
    /\ \E ks \in WireKeys, vs \in WireValues :
         \E wire_x \in {Call("ArgoWire_create", <<vs[1], ks[1], H>>)},
            wire_y \in {Call("ArgoWire_create", <<vs[2], ks[2], H>>)} :
           \E c1 \in TamperConsts, c2 \in TamperConsts :
             \E d1 \in Offsets \ {int_sub(N, One)}, d2 \in Offsets \ {One},
                d3 \in Offsets \ {int_sub(N, One)} :
               call' = [op |-> "call", f |-> "tampered", keys |-> ks,
                        vals |-> vs, wire_x |-> wire_x, wire_y |-> wire_y,
                        c1 |-> c1, c2 |-> c2,
                        d1 |-> d1, d2 |-> d2, d3 |-> d3]
    /\ UNCHANGED <<H, circuitVars, wireVars, gateVars>>

ReturnTamperedCircuit ==
    /\ Called("tampered")
    /\ LET wire_x  == tamper(call.wire_x, call.d1)
           wire_y  == tamper(call.wire_y, call.d2)
           wire_cx == tamper(Call("ArgoWire_mul_const", <<wire_x, call.c1>>),
                             call.d3)
           wire_cy == Call("ArgoWire_mul_const", <<wire_y, call.c2>>)
           key     == int_mod(int_add(int_mul(call.c1, call.keys[1]),
                                      int_mul(call.c2, call.keys[2])), N)
       IN  \E out \in {Call("ArgoWire_add", <<wire_cx, wire_cy>>)} :
             call' = [op |-> "tampered", keys |-> call.keys,
                      vals |-> call.vals,
                      c1 |-> call.c1, c2 |-> call.c2,
                      d1 |-> call.d1, d2 |-> call.d2, d3 |-> call.d3,
                      out |-> out, key |-> key,
                      valid |-> Call("ArgoWire_verify", <<out, key>>)]
    /\ UNCHANGED <<H, circuitVars, wireVars, gateVars>>

NextVerify ==
    \/ CallVerify
    \/ ReturnVerify
    \/ CallTamperedCircuit
    \/ ReturnTamperedCircuit

SpecVerify == InitCurve /\ [][NextVerify]_vars

(***************************************************************************)
(* Calls of evaluate of garbled_circuit.py, one per run: the arguments are *)
(* drawn, the function is applied, arguments and result are recorded.      *)
(***************************************************************************)
InitCall ==
    /\ H = NoPoint
    /\ call = NoCall
    /\ WiresIdle
    /\ GateIdle
    /\ CircuitIdle

\* gate = BinaryGarbledGate(gate_type, in_a, in_b, out); gate.evaluate(label_a,
\* label_b) for any two BinaryLabel objects: labels the wires may hold, a
\* 16-byte label no wire holds and a label of another length.
SampleWire(i, j) ==
    BinaryWire(BinaryLabel(token_bytes(i)), BinaryLabel(token_bytes(j)))

SampleGateWires ==
    {<<SampleWire(1, 2), SampleWire(2, 1), SampleWire(1, 2)>>,
     <<SampleWire(1, 1), SampleWire(1, 2), SampleWire(2, 2)>>}

CallEvaluate ==
    /\ call = NoCall
    /\ \E w \in SampleGateWires, gate_type \in GateType, perm \in RowOrders :
         \E g \in {BinaryGarbledGate(gate_type, w[1], w[2], w[3], perm)} :
           \E label_a \in AnyLabels, label_b \in AnyLabels :
             call' = [op |-> "evaluate", gate_type |-> gate_type,
                      in_a |-> w[1], in_b |-> w[2], out_wire |-> w[3],
                      gate |-> g,
                      label_a |-> label_a, label_b |-> label_b,
                      out |-> IF Raised(g) THEN g
                              ELSE evaluate(g, label_a, label_b)]
    /\ UNCHANGED <<H, circuitVars, wireVars, gateVars>>

NextCall == CallEvaluate

SpecCall == InitCall /\ [][NextCall]_vars

(***************************************************************************)
(* The arithmetic circuit (demo.py lines 38-92).  The garbler creates the  *)
(* two input wires; the evaluator, who holds no key, computes wire_3x,     *)
(* wire_2y and wire_result, and may go on applying add and mul_const to    *)
(* wire_result; the garbler verifies wire_result under its output key;     *)
(* the forged wire takes the tag of wire_result and another value, and the *)
(* garbler verifies it under the same key.                                 *)
(***************************************************************************)
WireNames == {"wire_x", "wire_y", "wire_3x", "wire_2y", "wire_result"}

\* x = 7, y = 11 (lines 46-47).
DemoValues == {<<int(7), int(11)>>}

\* key_x, key_y = secrets.randbelow(N), twice (lines 42-43): any two
\* numbers of [0, N), independently; here those up to the bound MaxKey.
MaxKey == 1
DemoKeys == {<<int(key_x), int(key_y)>> : key_x, key_y \in 0 .. MaxKey}

\* Constants of further mul_const calls: 0, a small one, one above N.
Consts == {Zero, int(2), int_add(N, int(3))}

\* Values a forger writes: 999 is the demo's (line 85).
ForgedValues == {int(999), Zero}

\* Bound: the transforms applied to wire_result after line 67.
MaxSteps == 1

\* output_key = (cx * key_x + cy * key_y) % N, which is
\* (3 * key_x + 2 * key_y) % N for the circuit of the demo (line 74).
output_key(n) ==
    int_mod(int_add(int_mul(coef[n][1], keys[1]),
                    int_mul(coef[n][2], keys[2])), N)

\* The value the circuit computes on wire n: (cx * x + cy * y) % N.
output_value(n) ==
    int_mod(int_add(int_mul(coef[n][1], vals[1]),
                    int_mul(coef[n][2], vals[2])), N)

\* After lines 39-54: H, the keys, wire_x and wire_y.
Init ==
    /\ H \in HPoints
    /\ call = NoCall
    /\ keys \in DemoKeys
    /\ vals \in DemoValues
    /\ wire = [n \in WireNames |->
                 IF n = "wire_x"
                 THEN Call("ArgoWire_create", <<vals[1], keys[1], H>>)
                 ELSE IF n = "wire_y"
                 THEN Call("ArgoWire_create", <<vals[2], keys[2], H>>)
                 ELSE NoWire]
    /\ coef = [n \in WireNames |->
                 IF n = "wire_x" THEN <<One, Zero>>
                 ELSE IF n = "wire_y" THEN <<Zero, One>>
                 ELSE <<Zero, Zero>>]
    /\ nsteps = 0
    /\ valid = NoVerdict
    /\ fake_wire = NoWire
    /\ fake_valid = NoVerdict
    /\ GateIdle
    /\ CircuitIdle

\* A variable is assigned once, except wire_result, which further
\* transforms replace, at most MaxSteps times.
Assigns(dst, src) ==
    /\ wire[src] # NoWire
    /\ valid = NoVerdict
    /\ IF dst = src
       THEN nsteps < MaxSteps /\ nsteps' = nsteps + 1
       ELSE wire[dst] = NoWire /\ nsteps' = nsteps

\* dst = src.mul_const(c)                            (demo.py lines 59, 63)
MulConst(dst, src, c) ==
    /\ Assigns(dst, src)
    /\ wire' = [wire EXCEPT
                   ![dst] = Call("ArgoWire_mul_const", <<wire[src], c>>)]
    /\ coef' = [coef EXCEPT
                   ![dst] = <<int_mod(int_mul(c, coef[src][1]), N),
                              int_mod(int_mul(c, coef[src][2]), N)>>]
    /\ UNCHANGED <<H, circuitVars, call, keys, vals, valid, fake_wire,
                   fake_valid, gateVars>>

\* dst = src.add(other)                              (demo.py line 67)
Add(dst, src, other) ==
    /\ Assigns(dst, src)
    /\ wire[other] # NoWire
    /\ wire' = [wire EXCEPT
                   ![dst] = Call("ArgoWire_add", <<wire[src], wire[other]>>)]
    /\ coef' = [coef EXCEPT
                   ![dst] = <<int_mod(int_add(coef[src][1], coef[other][1]),
                                      N),
                              int_mod(int_add(coef[src][2], coef[other][2]),
                                      N)>>]
    /\ UNCHANGED <<H, circuitVars, call, keys, vals, valid, fake_wire,
                   fake_valid, gateVars>>

\* output_key = (3 * key_x + 2 * key_y) % N
\* valid = wire_result.verify(output_key)            (demo.py lines 74-76)
Verify ==
    /\ wire["wire_result"] # NoWire
    /\ valid = NoVerdict
    /\ \E key \in {output_key("wire_result")} :
         valid' = [op |-> "verify", output_key |-> key,
                   ok |-> Call("ArgoWire_verify",
                               <<wire["wire_result"], key>>)]
    /\ UNCHANGED <<H, circuitVars, call, keys, vals, wire, coef, nsteps,
                   fake_wire, fake_valid, gateVars>>

\* fake_wire = ArgoWire(value=v, mac=wire_result.mac, h_point=H)
\*                                                    (demo.py lines 84-88)
Forge(v) ==
    /\ valid # NoVerdict
    /\ fake_wire = NoWire
    /\ fake_wire' = ArgoWire(v, wire["wire_result"].mac, H)
    /\ UNCHANGED <<H, circuitVars, call, keys, vals, wire, coef, nsteps,
                   valid, fake_valid, gateVars>>

\* fake_valid = fake_wire.verify(output_key)         (demo.py line 89)
VerifyFake ==
    /\ fake_wire # NoWire
    /\ fake_valid = NoVerdict
    /\ fake_valid' = [op |-> "verify",
                      ok |-> Call("ArgoWire_verify",
                                  <<fake_wire, valid.output_key>>)]
    /\ UNCHANGED <<H, circuitVars, call, keys, vals, wire, coef, nsteps,
                   valid, fake_wire, gateVars>>

Next ==
    \/ MulConst("wire_3x", "wire_x", int(3))
    \/ MulConst("wire_2y", "wire_y", int(2))
    \/ Add("wire_result", "wire_3x", "wire_2y")
    \/ \E c \in Consts : MulConst("wire_result", "wire_result", c)
    \/ \E n \in WireNames : Add("wire_result", "wire_result", n)
    \/ Verify
    \/ \E v \in ForgedValues : Forge(v)
    \/ VerifyFake

Spec == Init /\ [][Next]_vars

(***************************************************************************)
(* The binary garbled gate (garbled_circuit.py lines 222-252): the wires   *)
(* are created, the gate is garbled once, the evaluator evaluates it with  *)
(* the labels of its input bits.                                           *)
(***************************************************************************)
InitGate ==
    /\ H = NoPoint
    /\ call = NoCall
    /\ WiresIdle
    /\ GateIdle
    /\ CircuitIdle

\* wire_a = BinaryWire.create(); wire_b = ...; wire_out = ...
\*                                                       (lines 229-231)
CreateWires ==
    /\ wire_a = NoBinaryWire
    /\ wire_a' \in BinaryWire_create
    /\ wire_b' \in BinaryWire_create
    /\ wire_out' \in BinaryWire_create
    /\ UNCHANGED <<H, circuitVars, call, wireVars, gate, result>>

\* gate = BinaryGarbledGate(gate_type, wire_a, wire_b, wire_out) (line 234),
\* that is BinaryGarbledGate(..., perm) for the order perm the shuffle
\* chooses; an unsupported gate type raises and leaves no gate.
Garble(gate_type) ==
    /\ wire_a # NoBinaryWire
    /\ gate = NoGate
    /\ \E rows \in {garble_rows(gate_type, wire_a, wire_b, wire_out)} :
         \E perm \in RowOrders :
             gate' = BinaryGarbledGate_init(gate_type, wire_a, wire_b, wire_out,
                                            garble_shuffle(rows, perm))
    /\ UNCHANGED <<H, circuitVars, call, wireVars, wire_a, wire_b, wire_out,
                   result>>

\* result_label = gate.evaluate(wire_a.get_label(a), wire_b.get_label(b))
\*                                                       (lines 240-244)
Evaluate(a, b) ==
    /\ gate # NoGate
    /\ ~Raised(gate)
    /\ LET label_a == BinaryWire_get_label(wire_a, a)
           label_b == BinaryWire_get_label(wire_b, b)
       IN  result' = [op |-> "evaluate", a |-> a, b |-> b,
                      label_a |-> label_a, label_b |-> label_b,
                      out |-> evaluate(gate, label_a, label_b)]
    /\ UNCHANGED <<H, circuitVars, call, wireVars, wire_a, wire_b, wire_out,
                   gate>>

NextGate ==
    \/ CreateWires
    \/ \E gate_type \in GateType : Garble(gate_type)
    \/ \E a \in {0, 1}, b \in {0, 1} : Evaluate(a, b)

SpecGate == InitGate /\ [][NextGate]_vars

(***************************************************************************)
(* The gate counter: a fresh BinaryFieldCircuit and any sequence of at     *)
(* most MaxCalls calls of its public methods.                              *)
(***************************************************************************)
MaxBitWidth == 3
MaxScalarBits == 2
MaxCalls == 3

\* The widths of the circuit: small ones and the default of __init__.
BitWidths == (0 .. MaxBitWidth) \cup {DefaultBitWidth}

InitCircuit ==
    /\ H = NoPoint
    /\ call = NoCall
    /\ WiresIdle
    /\ GateIdle
    /\ \E bit_width \in BitWidths : circuit = BinaryFieldCircuit(bit_width)
    /\ returned = GateCount(0, 0, 0)
    /\ last = NoLast
    /\ ncalls = 0

\* r = circuit.method(...): the object is updated by the call, the returned
\* GateCount is added to the sum of the values returned so far.
Returns(method, r) ==
    /\ circuit' = r.self
    /\ returned' = GateCount_add(returned, r.out)
    /\ last' = [method |-> method, out |-> r.out]
    /\ ncalls' = ncalls + 1
    /\ UNCHANGED <<H, call, wireVars, gateVars>>

BinaryAddition ==
    /\ ncalls < MaxCalls
    /\ Returns("binary_addition", binary_addition(circuit))

BinaryMultiplication ==
    /\ ncalls < MaxCalls
    /\ Returns("binary_multiplication", binary_multiplication(circuit))

ModularReduction ==
    /\ ncalls < MaxCalls
    /\ Returns("modular_reduction", modular_reduction(circuit))

FieldMultiplication ==
    /\ ncalls < MaxCalls
    /\ Returns("field_multiplication", field_multiplication(circuit))

FieldInversion ==
    /\ ncalls < MaxCalls
    /\ Returns("field_inversion", field_inversion(circuit))

EcPointAddition ==
    /\ ncalls < MaxCalls
    /\ Returns("ec_point_addition", ec_point_addition(circuit))

EcScalarMultiplication ==
    /\ ncalls < MaxCalls
    /\ \E scalar_bits \in (0 - 1) .. MaxScalarBits :
         Returns("ec_scalar_multiplication",
                 ec_scalar_multiplication(circuit, scalar_bits))

NextCircuit ==
    \/ BinaryAddition
    \/ BinaryMultiplication
    \/ ModularReduction
    \/ FieldMultiplication
    \/ FieldInversion
    \/ EcPointAddition
    \/ EcScalarMultiplication

SpecCircuit == InitCircuit /\ [][NextCircuit]_vars

(***************************************************************************)
(* Claims about the MACs, under SpecMac.                                   *)
(***************************************************************************)

\* C1: MAC addition is homomorphic.  For all k1, k2, v1, v2 in [0, N) and a
\* finite curve point H, ECMac.create(k1,v1,H).add(ECMac.create(k2,v2,H)) has
\* the same tag (Point.__eq__) as ECMac.create((k1+k2)%N, (v1+v2)%N, H),
\* also when the two tags are equal or opposite; nothing raises.
C1_MacAddHomomorphic ==
    call.op = "ECMac.add" =>
        /\ ~Raised(call.mac1.tag)
        /\ ~Raised(call.mac2.tag)
        /\ ~Raised(call.out.tag)
        /\ Point_eq(call.out.tag,
                    ECMac_create(int_mod(int_add(call.k1, call.k2), N),
                                 int_mod(int_add(call.v1, call.v2), N),
                                 H).tag)

\* C1 witness: the MACs of the keys N - 1 and 1, whose tags are opposite
\* finite points, were added, and the sum is the tag of key 0: infinity.
C1_Witness ==
    /\ call.op = "ECMac.add"
    /\ int_add(call.k1, call.k2) = N
    /\ ~call.mac1.tag.is_infinity
    /\ ~call.mac2.tag.is_infinity
    /\ call.mac1.tag.x = call.mac2.tag.x
    /\ call.mac1.tag.y # call.mac2.tag.y
    /\ call.out.tag.is_infinity

\* C2: MAC scalar multiplication is homomorphic.  For every key k, value v
\* and scalar c (0, negative and >= N included),
\* ECMac.create(k,v,H).scalar_mul(c) has the same tag as
\* ECMac.create((c*k)%N, (c*v)%N, H); nothing raises.
C2_MacScalarMulHomomorphic ==
    call.op = "ECMac.scalar_mul" =>
        /\ ~Raised(call.mac1.tag)
        /\ ~Raised(call.out.tag)
        /\ Point_eq(call.out.tag,
                    ECMac_create(int_mod(int_mul(call.c, call.k), N),
                                 int_mod(int_mul(call.c, call.v), N),
                                 H).tag)

\* C2 witness: a finite tag was multiplied by a scalar >= N that is not a
\* multiple of N, giving a finite tag.
C2_Witness ==
    /\ call.op = "ECMac.scalar_mul"
    /\ int_lt(N, call.c)
    /\ ~call.mac1.tag.is_infinity
    /\ ~call.out.tag.is_infinity
    /\ call.out.tag # call.mac1.tag

(***************************************************************************)
(* Claims about wire operations, under SpecWire.                           *)
(***************************************************************************)

\* C4: wire addition mirrors the MAC law.  The fold of add over n wires
\* created with values v_i and keys k_i under a common H has value
\* (sum of the v_i) % N and passes verify((sum of the k_i) % N); for n = 2
\* this is create(v1,k1,H).add(create(v2,k2,H)) with value (v1+v2)%N
\* passing verify((k1+k2)%N).
C4_WireAddMirrorsMac ==
    call.op = "sum" =>
        /\ ~Raised(call.result_wire)
        /\ call.result_wire.value = int_mod(sum(call.products), N)
        /\ call.valid = [value |-> TRUE]

\* C4 witness: two wires whose values sum to more than N were added, and the
\* result carries the sum reduced and verified.
C4_Witness ==
    /\ call.op = "sum"
    /\ Len(call.products) = 2
    /\ int_lt(N, sum(call.products))
    /\ call.result_wire.value = int_sub(sum(call.products), N)
    /\ call.valid = [value |-> TRUE]

\* C5: constant multiplication scales value and tag identically.  For every
\* v, k and integer c, create(v,k,H).mul_const(c) has value
\* ((c mod N) * v) % N and passes verify((c*k) % N); c and c + N give the
\* same wire; c = 0 gives value 0 and the infinity tag.
C5_MulConstScales ==
    call.op = "mul_const" =>
        /\ ~Raised(call.out)
        /\ call.out.value
               = int_mod(int_mul(int_mod(call.c, N), call.v), N)
        /\ call.valid = [value |-> TRUE]
        /\ call.out_plus_n = call.out
        /\ call.c = Zero => /\ call.out.value = Zero
                            /\ call.out.mac.tag.is_infinity

\* C5 witness: a wire with a finite tag and a non-zero value was multiplied
\* by 0.
C5_Witness ==
    /\ call.op = "mul_const"
    /\ call.c = Zero
    /\ call.wire.value # Zero
    /\ ~call.wire.mac.tag.is_infinity
    /\ call.out.value = Zero
    /\ call.out.mac.tag.is_infinity

\* C19: ArgoWire.add enforces that both wires share the same H.  For wires
\* a and b with a.h_point != b.h_point, a.add(b) produces no result wire.
C19_AddRejectsMixedH ==
    (call.op = "ArgoWire.add" /\ ~Point_eq(call.a.h_point, call.b.h_point)) =>
        Raised(call.out)

(***************************************************************************)
(* Claims about the arithmetic circuit, under Spec.                        *)
(***************************************************************************)

\* C3: wire invariant over honest transforms.  Every wire reached from the
\* created wires by add and mul_const alone has as value the linear
\* combination (mod N) of the input values, and passes the garbler's verify
\* under the same linear combination (mod N) of the input keys.
C3_WireInvariant ==
    /\ \A n \in WireNames :
           wire[n] # NoWire =>
               /\ ~Raised(wire[n])
               /\ wire[n].value = output_value(n)
    /\ valid.op = "verify" =>
           /\ valid.output_key = output_key("wire_result")
           /\ valid.ok = [value |-> TRUE]

\* C3 witness: wire_x.mul_const(3).add(wire_y.mul_const(2)) was computed as
\* in the demo, has the value (3x + 2y) % N = 43 and was verified under
\* (3*key_x + 2*key_y) % N.
C3_Witness ==
    /\ nsteps = 0
    /\ coef["wire_result"] = <<int(3), int(2)>>
    /\ wire["wire_3x"].value = int_mul(int(3), vals[1])
    /\ wire["wire_2y"].value = int_mul(int(2), vals[2])
    /\ wire["wire_result"].value = int(43)
    /\ valid.op = "verify"
    /\ valid.output_key
           = int_mod(int_add(int_mul(int(3), keys[1]),
                             int_mul(int(2), keys[2])), N)
    /\ valid.ok = [value |-> TRUE]

\* C6: tamper detection.  A wire whose tag is the honest MAC of (k, v) and
\* whose value is not congruent to v modulo N fails verify(k).
C6_TamperDetected ==
    (/\ fake_valid.op = "verify"
     /\ int_mod(fake_wire.value, N) # output_value("wire_result")
     /\ Point_eq(fake_wire.mac.tag,
                 ECMac_create(valid.output_key, output_value("wire_result"),
                              H).tag))
        => fake_valid.ok = [value |-> FALSE]

\* C6 witness: the result 3x + 2y of the demo was replaced by a forged wire
\* with the same tag and the value 999, and the garbler's verify under the
\* output key, which had accepted the result, returned false.
C6_Witness ==
    /\ nsteps = 0
    /\ coef["wire_result"] = <<int(3), int(2)>>
    /\ valid.op = "verify"
    /\ valid.ok = [value |-> TRUE]
    /\ fake_wire # NoWire
    /\ fake_wire.value = int(999)
    /\ fake_wire.mac = wire["wire_result"].mac
    /\ fake_valid.op = "verify"
    /\ fake_valid.ok = [value |-> FALSE]

(***************************************************************************)
(* Claims about the binary garbled gate, under SpecGate.                   *)
(***************************************************************************)
Built(g) == "garbled_table" \in DOMAIN g

\* The label the gate must produce for the input bits (a, b).
expected_label(g, a, b) ==
    BinaryWire_get_label(g.out, gate_func(g.gate_type, a, b).value)

\* The entries of the table that, unmasked with the key of the labels of
\* (a, b), give the expected output label.
unmasking(g, a, b, key) ==
    {i \in 1 .. Len(g.garbled_table) :
        xor_bytes(key, g.garbled_table[i]) = expected_label(g, a, b).label}

decrypting_entries(g, a, b) ==
    unmasking(g, a, b, hash_with(BinaryWire_get_label(g.in_a, a),
                                 <<BinaryWire_get_label(g.in_b, b)>>))

pairwise_distinct(table) ==
    \A i, j \in 1 .. Len(table) : table[i] = table[j] => i = j

\* C7: garbled gate correctness.  For every gate type in {AND, XOR, OR} and
\* input bits (a, b), evaluate(in_a.get_label(a), in_b.get_label(b)) returns
\* out.get_label(gate_func(a, b)), whatever order the shuffle chose.
C7_EvaluateCorrect ==
    (result.op = "evaluate" /\ Built(gate)) =>
        result.out = expected_label(gate, result.a, result.b)

\* C8 as stated: for every gate type and input bits (a, b) the table holds
\* exactly one entry that unmasks, under hash(in_a.get_label(a) ||
\* in_b.get_label(b)), to out.get_label(gate_func(a, b)).
C8_ExactlyOneEntry ==
    (Built(gate) /\ result = NoResult) =>
        \A a \in {0, 1}, b \in {0, 1} :
            Cardinality(decrypting_entries(gate, a, b)) = 1

\* C8, amended: the table holds at least one such entry for every (a, b),
\* and exactly one whenever its four entries are pairwise distinct.
C8_AtLeastOneEntry ==
    (Built(gate) /\ result = NoResult) =>
        \A a \in {0, 1}, b \in {0, 1} :
            \A n \in {Cardinality(decrypting_entries(gate, a, b))} :
                /\ n >= 1
                /\ pairwise_distinct(gate.garbled_table) => n = 1

\* C8 witness: an AND gate whose four entries are distinct was garbled, and
\* the shuffle moved the entry for (1,1) from the last place to the first.
C8_Witness ==
    /\ Built(gate)
    /\ result = NoResult
    /\ gate.gate_type = "AND"
    /\ pairwise_distinct(gate.garbled_table)
    /\ decrypting_entries(gate, 1, 1) = {1}

\* C9: garbled table size.  Every gate built from wires made by
\* BinaryWire.create has a table of exactly 4 entries of exactly 16 bytes,
\* one per input-bit combination: the table is the four rows in some order.
is_shuffle_of(table, rows) ==
    \E r \in {rows} : \E perm \in RowOrders : table = shuffle(r, perm)

C9_TableSize ==
    (Built(gate) /\ result = NoResult) =>
        /\ Len(gate.garbled_table) = 4
        /\ \A i \in 1 .. Len(gate.garbled_table) :
               Len(gate.garbled_table[i]) = 16
        /\ is_shuffle_of(gate.garbled_table,
               garble_rows(gate.gate_type, wire_a, wire_b, wire_out).value)

\* C9 witness: an XOR gate was garbled from created wires and its table was
\* left in an order other than the order of the loops.
C9_Witness ==
    /\ Built(gate)
    /\ gate.gate_type = "XOR"
    /\ gate.in_a \in BinaryWire_create
    /\ Len(gate.garbled_table) = 4
    /\ gate.garbled_table #
           garble_rows(gate.gate_type, wire_a, wire_b, wire_out).value

(***************************************************************************)
(* Claims about point arithmetic, under SpecPoint.                         *)
(***************************************************************************)
\* A Point of the data model: infinity, or field elements x, y in [0, P)
\* with y^2 = x^3 + 7 (mod P).
in_field(q) ==
    /\ ~q.x.neg /\ int_lt(q.x, P)
    /\ ~q.y.neg /\ int_lt(q.y, P)

curve_point(q) ==
    /\ ~Raised(q)
    /\ q.is_infinity \/ (in_field(q) /\ on_curve(q))

finite_curve_point(q) == curve_point(q) /\ ~q.is_infinity

\* Q added to itself n times with point_add, starting from infinity.
RECURSIVE repeated_add(_, _)
repeated_add(n, q) ==
    IF n = 0 THEN infinity ELSE point_add(repeated_add(n - 1, q), q)

\* The scalars whose multiples are computed by repeated addition, and the
\* number a small scalar stands for.
MaxRepeated == Max(MaxScalar, MaxExcess)

is_small(k) == ~k.neg /\ ~int_lt(int(MaxRepeated), k)

count(k) == CHOOSE n \in 0 .. MaxRepeated : int(n) = k

\* C10: infinity is the identity of point_add on both sides, before any
\* other branch: point_add(Q, infinity) = Q and point_add(infinity, Q) = Q
\* for every Point Q, finite or infinity.
C10_InfinityIdentity ==
    call.op = "point_add" =>
        /\ call.p2.is_infinity => call.out = call.p1
        /\ call.p1.is_infinity => call.out = call.p2

\* C10 witness: a finite point was added to infinity on the right.
C10_Witness ==
    /\ call.op = "point_add"
    /\ call.p2.is_infinity
    /\ ~call.p1.is_infinity
    /\ call.out = call.p1

\* C11: a point plus its negation is infinity.  For every finite curve point
\* Q = (x, y), point_add(Q, (x, (P - y) mod P)) is the point at infinity, in
\* either argument order.
C11_NegationGivesInfinity ==
    (call.op = "point_add" /\ finite_curve_point(call.p1)
                           /\ call.p2 = point_neg(call.p1)) =>
        /\ call.out = infinity
        /\ call.rev = infinity

\* C11 witness: the generator was added to its negation.
C11_Witness ==
    /\ call.op = "point_add"
    /\ call.p1 = generator
    /\ call.p2 = point_neg(generator)
    /\ call.p2 # call.p1
    /\ call.out = infinity

\* C12: point_add is commutative.  For every pair Q1, Q2 of points that are
\* infinity or on the curve, point_add(Q1, Q2) == point_add(Q2, Q1) (neither
\* raises, and the results compare equal with Point.__eq__).
C12_PointAddCommutative ==
    (call.op = "point_add" /\ curve_point(call.p1) /\ curve_point(call.p2)) =>
        /\ ~Raised(call.out)
        /\ ~Raised(call.rev)
        /\ Point_eq(call.out, call.rev)

\* C12 witness: two finite points of different x were added to a finite sum.
C12_Witness ==
    /\ call.op = "point_add"
    /\ finite_curve_point(call.p1)
    /\ finite_curve_point(call.p2)
    /\ call.p1.x # call.p2.x
    /\ finite_curve_point(call.out)
    /\ call.out = call.rev

\* C13: point_mul(0, Q) is infinity for every point Q, and point_mul(N, Q) is
\* infinity for every point Q of order N (every finite point of the curve,
\* whose group has prime order N).
C13_MulByZeroAndOrder ==
    call.op = "point_mul" =>
        /\ call.k = Zero => call.out = infinity
        /\ (call.k = N /\ finite_curve_point(call.p)) => call.out = infinity

\* C13 witness: a finite curve point was multiplied by N.
C13_Witness ==
    /\ call.op = "point_mul"
    /\ call.k = N
    /\ finite_curve_point(call.p)
    /\ call.out = infinity

\* C14: point_mul agrees with repeated addition on silently reduced scalars.
\* For every integer k (negative, in range or >= N) and curve point Q,
\* point_mul(k, Q) is Q added to itself (k mod N) times from infinity; it
\* equals point_mul(k mod N, Q), and no scalar is rejected.  For a scalar
\* whose residue r is just below N the sum of r times Q is known by what
\* remains to N times Q, which is infinity: the result plus (N - r) times Q
\* is infinity.
C14_MulIsRepeatedAdd ==
    (call.op = "point_mul" /\ curve_point(call.p)) =>
        /\ ~Raised(call.out)
        /\ \A r \in {int_mod(call.k, N)} :
               IF is_small(r)
               THEN /\ Point_eq(call.out, repeated_add(count(r), call.p))
                    /\ call.out = point_mul(r, call.p)
               ELSE /\ is_small(int_sub(N, r))
                    /\ point_add(call.out,
                                 repeated_add(count(int_sub(N, r)), call.p))
                           = infinity

\* C14 witness: the generator was multiplied by -1, whose residue N - 1 has
\* as many bits as N, giving the negation of the generator.
C14_Witness ==
    /\ call.op = "point_mul"
    /\ call.k.neg
    /\ ~is_small(int_mod(call.k, N))
    /\ call.p = generator
    /\ call.out = point_neg(generator)
    /\ call.out # call.p

\* C17: curve membership is preserved.  If Q1 and Q2 are each infinity or a
\* point of the curve, then point_add(Q1, Q2) and point_mul(k, Q1), for every
\* integer k, are each infinity or satisfy y^2 = x^3 + 7 (mod P) with
\* coordinates in [0, P).
C17_CurveMembershipPreserved ==
    /\ (call.op = "point_add" /\ curve_point(call.p1) /\ curve_point(call.p2))
           => curve_point(call.out)
    /\ (call.op = "point_mul" /\ curve_point(call.p))
           => curve_point(call.out)

\* C17 witness: a finite curve point was multiplied by a scalar above N,
\* giving another finite curve point.
C17_Witness ==
    /\ call.op = "point_mul"
    /\ int_lt(N, call.k)
    /\ finite_curve_point(call.p)
    /\ finite_curve_point(call.out)
    /\ call.out.x # call.p.x

\* C26: point_mul terminates for every integer k and every point.  Its loop
\* runs exactly bitlength(k mod N) iterations on a curve point (none when
\* k mod N = 0), hence at most bitlength(N), a number that depends on the
\* scalar; on any Point object it runs at most that many.
C26_LoopIterations ==
    call.op = "point_mul" =>
        /\ call.iterations <= bit_length(int_mod(call.k, N))
        /\ call.iterations <= bit_length(N)
        /\ curve_point(call.p) =>
               call.iterations = bit_length(int_mod(call.k, N))

\* C26 witness: a finite curve point was multiplied by N + 2, which has as
\* many bits as N, in the two iterations of 2.
C26_Witness ==
    /\ call.op = "point_mul"
    /\ call.k = int_add(N, int(2))
    /\ finite_curve_point(call.p)
    /\ bit_length(call.k) = bit_length(N)
    /\ call.iterations = 2

\* C29: point arithmetic never hits a non-invertible element on valid
\* inputs.  For Q1, Q2 each infinity or on the curve, point_add(Q1, Q2)
\* returns a point without raising: the doubling branch is never entered
\* with 2*y = 0 (mod P) and the chord branch never with x2 = x1 (mod P);
\* hence point_mul on a curve point never raises.
C29_NoNonInvertibleElement ==
    /\ (call.op = "point_add" /\ curve_point(call.p1) /\ curve_point(call.p2)) =>
           /\ ~Raised(call.out)
           /\ ~Raised(call.rev)
           /\ (~call.p1.is_infinity /\ ~call.p2.is_infinity) =>
                  /\ call.p1 = call.p2 =>
                         int_mod(int_mul(int(2), call.p1.y), P) # Zero
                  /\ call.p1.x # call.p2.x =>
                         int_mod(int_sub(call.p2.x, call.p1.x), P) # Zero
    /\ (call.op = "point_mul" /\ curve_point(call.p)) => ~Raised(call.out)

\* C29 witness: a chord addition whose difference x2 - x1 is negative, of
\* two finite curve points, returned a finite point.
C29_Witness ==
    /\ call.op = "point_add"
    /\ finite_curve_point(call.p1)
    /\ finite_curve_point(call.p2)
    /\ int_lt(call.p2.x, call.p1.x)
    /\ ~Raised(call.out)
    /\ ~call.out.is_infinity

(***************************************************************************)
(* Claims about mod_inverse and generate_h_point, under SpecField.         *)
(***************************************************************************)
\* The greatest common divisor of a >= 0 and b >= 0, by Euclid: one step,
\* up to 2^n steps, all of them.
gcd_step(st) == [a |-> st.b, b |-> int_mod(st.a, st.b)]

RECURSIVE gcd_loop(_, _)
gcd_loop(st, n) ==
    IF st.b = Zero THEN st
    ELSE IF n = 0 THEN gcd_step(st)
    ELSE CHOOSE r \in {gcd_loop(l, n - 1) : l \in {gcd_loop(st, n - 1)}} :
             TRUE

gcd(a, b) ==
    gcd_loop([a |-> a, b |-> b], ceil_log2(26 * Len(b.mag) + 4)).a

\* C15: mod_inverse computes the inverse.  For every modulus m > 1 and
\* integer a (negative, in [0, m) or >= m) with gcd(a, m) = 1,
\* mod_inverse(a, m) returns r with 0 <= r < m and (a * r) mod m = 1; a
\* negative a gives the same result as a mod m.
C15_ModInverseInverts ==
    (call.op = "mod_inverse" /\ gcd(int_mod(call.a, call.m), call.m) = One) =>
        /\ ~Raised(call.out)
        /\ ~call.out.value.neg
        /\ int_lt(call.out.value, call.m)
        /\ int_mod(int_mul(call.a, call.out.value), call.m) = One
        /\ call.a.neg => call.out = call.reduced

\* C16: mod_inverse fails exactly on non-units.  For every m > 1 and integer
\* a, mod_inverse(a, m) raises the non-invertible error (ValueError) iff
\* gcd(a mod m, m) != 1 (a = 0 and multiples of m included), and returns a
\* value otherwise.
C16_ModInverseFailsOnNonUnits ==
    call.op = "mod_inverse" =>
        /\ call.out = ValueError
               <=> gcd(int_mod(call.a, call.m), call.m) # One
        /\ call.out # ValueError => "value" \in DOMAIN call.out

\* The x-coordinate generate_h_point starts from: the digest of the domain
\* string, read as a big-endian integer, modulo P.
hashed_x == int_mod(int_from_bytes(sha256_digest(DomainString)), P)

\* C18: generate_h_point returns a valid second generator.  For the value
\* the hash of the domain string takes, the returned point is finite and its
\* coordinates satisfy y^2 = x^3 + 7 (mod P).
C18_HPointOnCurve ==
    call.op = "generate_h_point" => finite_curve_point(call.out)

\* C18 witness: generate_h_point returned a finite point of the curve whose
\* x is not the hashed one: the first candidate was off the curve.
C18_Witness ==
    /\ call.op = "generate_h_point"
    /\ ~Raised(call.out)
    /\ ~call.out.is_infinity
    /\ call.out.x # hashed_x
    /\ on_curve(call.out)

\* Whether n is a square modulo P, by Euler's criterion.
is_square(n) ==
    \/ int_mod(n, P) = Zero
    \/ pow(n, int_floordiv(int_sub(P, One), int(2)), P) = One

\* x^3 + 7, and the candidate of generate_h_point for the x-coordinate x.
curve_rhs(x) == int_add(int_mul(int_mul(x, x), x), int(7))

candidate(x) ==
    Point(x, pow(int_mod(curve_rhs(x), P),
                 int_floordiv(int_add(P, One), int(4)), P))

\* C25: generate_h_point tries at most two candidates.  With x0 the hashed
\* x-coordinate, it returns (x0, (x0^3+7)^((P+1)/4) mod P) exactly when
\* x0^3 + 7 is a quadratic residue mod P, and otherwise the same expression
\* for (x0 + 1) mod P, unchecked and without raising; never a third x.
C25_AtMostTwoCandidates ==
    call.op = "generate_h_point" =>
        \A x0 \in {hashed_x} :
            /\ ~Raised(call.out)
            /\ IF is_square(curve_rhs(x0))
               THEN call.out = candidate(x0)
               ELSE call.out = candidate(int_mod(int_add(x0, One), P))

\* C25 witness: x0^3 + 7 is not a square for the hashed x0, and the
\* candidate of x0 + 1 was returned.
C25_Witness ==
    /\ call.op = "generate_h_point"
    /\ ~is_square(curve_rhs(hashed_x))
    /\ call.out = candidate(int_mod(int_add(hashed_x, One), P))

(***************************************************************************)
(* Claims about verification, under SpecVerify.                            *)
(***************************************************************************)

\* C27: verify accepts exactly one key.  For a wire built by
\* ArgoWire.create(v, k, H), verify(k') returns true iff k' is congruent to k
\* modulo N: verify(k + N) is true and every other key class is rejected.
C27_VerifyAcceptsOneKey ==
    call.op = "verify" =>
        /\ ~Raised(call.valid)
        /\ call.valid.value
               <=> int_mod(int_sub(call.key, call.k), N) = Zero

\* C27 witness: the key k + N was accepted for a wire created under k.
C27_Witness ==
    /\ call.op = "verify"
    /\ call.key = int_add(call.k, N)
    /\ call.valid = [value |-> TRUE]

\* C28: output verification is sound and complete over composed circuits.
\* For a circuit of add and mul_const over honestly created wires, if the
\* evaluator replaces the value of any wires, inputs or intermediates,
\* keeping their tags, the output passes verify(effective_key) iff its value
\* equals the honest output value modulo N: tampering that cancels out or is
\* multiplied by 0 is accepted, tampering that changes the output is rejected.
honest_output(c) ==
    int_mod(int_add(int_mul(c.c1, c.vals[1]), int_mul(c.c2, c.vals[2])), N)

C28_OutputVerification ==
    call.op = "tampered" =>
        /\ ~Raised(call.out)
        /\ ~Raised(call.valid)
        /\ call.valid.value <=> call.out.value = honest_output(call)

\* C28 witness: both inputs were tampered with, the constants were not 0,
\* the changes cancelled in the sum and the output was accepted.
C28_Witness ==
    /\ call.op = "tampered"
    /\ call.d1 # Zero
    /\ call.d2 # Zero
    /\ call.c1 # Zero
    /\ call.c2 # Zero
    /\ call.out.value = honest_output(call)
    /\ call.valid = [value |-> TRUE]

(***************************************************************************)
(* Claims about evaluate, under SpecCall.                                  *)
(***************************************************************************)

\* C20: evaluate fails only if the garbled table is empty.  For every gate
\* the constructor produced and every pair of input labels, labels of no wire
\* of the gate included, evaluate returns a label and never raises.
C20_EvaluateNeverRaises ==
    (call.op = "evaluate" /\ ~Raised(call.gate)) =>
        /\ Len(call.gate.garbled_table) = 4
        /\ ~Raised(call.out)
        /\ "label" \in DOMAIN call.out
        /\ Len(call.out.label) = LabelBytes

\* C20 witness: an AND gate was evaluated with two labels that no wire holds
\* and returned a label that is neither label of its output wire.
C20_Witness ==
    /\ call.op = "evaluate"
    /\ ~Raised(call.gate)
    /\ call.gate.gate_type = "AND"
    /\ call.label_a \in ForeignLabels
    /\ call.label_b \in ForeignLabels
    /\ ~Raised(call.out)
    /\ call.out \notin {call.gate.out.label_0, call.gate.out.label_1}

\* C22: row selection of evaluate.  For every gate and pair of input labels
\* (la, lb), evaluate returns hash(la || lb) XOR garbled_table[0], the first
\* stored entry, whatever entries 1..3 hold; so for the labels of inputs
\* (a, b) it returns out.get_label(gate_func(a, b)) iff the shuffle left the
\* ciphertext of row (a, b), or an equal ciphertext, at index 0.
C22_EvaluateUsesFirstEntry ==
    (call.op = "evaluate" /\ Built(call.gate)) =>
        /\ call.out = BinaryLabel(xor_bytes(
               hash_with(call.label_a, <<call.label_b>>),
               call.gate.garbled_table[1]))
        /\ \A a \in {0, 1}, b \in {0, 1} :
               (/\ call.label_a = BinaryWire_get_label(call.gate.in_a, a)
                /\ call.label_b = BinaryWire_get_label(call.gate.in_b, b)) =>
                   (call.out = expected_label(call.gate, a, b)
                      <=> call.gate.garbled_table[1] =
                              garble_row(call.gate.gate_type, call.gate.in_a,
                                         call.gate.in_b, call.gate.out, a, b))

\* C22 witness: an AND gate whose first entry is not the row of (1,1) was
\* evaluated with the labels of (1,1) and returned another label than
\* out.label_1.
C22_Witness ==
    /\ call.op = "evaluate"
    /\ Built(call.gate)
    /\ call.gate.gate_type = "AND"
    /\ call.label_a = call.gate.in_a.label_1
    /\ call.label_b = call.gate.in_b.label_1
    /\ call.gate.in_a.label_0 # call.gate.in_a.label_1
    /\ call.gate.garbled_table[1] #
           garble_row("AND", call.gate.in_a, call.gate.in_b, call.gate.out, 1, 1)
    /\ call.out # call.gate.out.label_1

\* The truth tables a & b, a ^ b, a | b.
truth_table(gate_type, a, b) ==
    IF gate_type = "AND" THEN (IF a = 1 /\ b = 1 THEN 1 ELSE 0)
    ELSE IF gate_type = "XOR" THEN (IF a # b THEN 1 ELSE 0)
    ELSE (IF a = 0 /\ b = 0 THEN 0 ELSE 1)

\* C24: gate function and unsupported types.  For AND, XOR and OR the row of
\* inputs (a, b) masks the output label of a & b, a ^ b, a | b; constructing
\* a gate of any other GateType (ADD, MUL) fails during garbling and yields
\* no gate and no table.
C24_GateFunctionAndUnsupported ==
    call.op = "evaluate" =>
        /\ call.gate_type \in {"ADD", "MUL"} <=> call.gate = ValueError
        /\ call.gate_type \in {"AND", "XOR", "OR"} =>
             /\ Built(call.gate)
             /\ \A a \in {0, 1}, b \in {0, 1} :
                  \E i \in 1 .. Len(call.gate.garbled_table) :
                    xor_bytes(hash_with(BinaryWire_get_label(call.in_a, a),
                                        <<BinaryWire_get_label(call.in_b, b)>>),
                              call.gate.garbled_table[i])
                      = BinaryWire_get_label(call.out_wire,
                            truth_table(call.gate_type, a, b)).label

\* C24 witness: the construction of a MUL gate raised and left no gate.
C24_Witness ==
    /\ call.op = "evaluate"
    /\ call.gate_type = "MUL"
    /\ call.gate = ValueError
    /\ ~Built(call.gate)

(***************************************************************************)
(* Claims about the gate counter, under SpecCircuit.                       *)
(***************************************************************************)

\* C30: gate-count bookkeeping is consistent.  After any sequence of public
\* calls on a fresh BinaryFieldCircuit, total_gates equals the
\* component-wise sum of the GateCounts those calls returned; after one
\* field_multiplication, total_gates equals the returned count.
C30_TotalEqualsReturned == circuit.total_gates = returned

====
